---- MODULE Spec2Model ----
(***************************************************************************)
(* lazynotes: the document / navigation model of src/app.rs and the note   *)
(* tree of src/fs/ops.rs, as a state machine driven by key events.         *)
(*                                                                         *)
(* A string is a sequence of characters; a character is a one-character    *)
(* TLA+ string.  Rust strings are indexed by UTF-8 byte offset, so every   *)
(* character carries its encoded width (len_utf8) and the cursors of the   *)
(* program are byte offsets, exactly as in the source.                     *)
(* A path is the sequence of its components (PathBuf compares by           *)
(* components); a component is a string.                                   *)
(* An Option is a sequence of length 0 (None) or 1 (Some(x)).              *)
(***************************************************************************)
EXTENDS Integers, Sequences, FiniteSets, TLC

(***************************************************************************)
(* Bounds of the model.                                                    *)
(***************************************************************************)
MaxLines == 2
MaxLineLen == 2
MaxTitleLen == 2
MaxNameLen == 2
MaxCommits == 1

None == <<>>
Some(x) == <<x>>
is_some(o) == o # <<>>
unwrap(o) == o[1]
unwrap_or(o, d) == IF o = <<>> THEN d ELSE o[1]

Min(a, b) == IF a <= b THEN a ELSE b
saturating_sub(a, b) == IF a >= b THEN a - b ELSE 0

(***************************************************************************)
(* Characters and strings (std::string::String, byte indexed).             *)
(***************************************************************************)
WideChars == {"é"}
len_utf8(c) == IF c \in WideChars THEN 2 ELSE 1

RECURSIVE len(_)
len(s) == IF s = <<>> THEN 0 ELSE len_utf8(Head(s)) + len(Tail(s))

\* byte offset at which the (n+1)-th character of s starts
Offset(s, n) == len(SubSeq(s, 1, n))

is_char_boundary(s, idx) == \E n \in 0..Len(s) : Offset(s, n) = idx

\* number of characters of s that lie before the boundary idx
CharsBefore(s, idx) == CHOOSE n \in 0..Len(s) : Offset(s, n) = idx

\* String::insert panics unless idx is a character boundary
can_insert(s, idx) == is_char_boundary(s, idx)
String_insert(s, idx, c) ==
    LET n == CharsBefore(s, idx)
    IN SubSeq(s, 1, n) \o <<c>> \o SubSeq(s, n + 1, Len(s))

\* String::remove panics unless idx is a boundary before the end
can_remove(s, idx) == is_char_boundary(s, idx) /\ idx < len(s)
String_remove(s, idx) ==
    LET n == CharsBefore(s, idx)
    IN SubSeq(s, 1, n) \o SubSeq(s, n + 2, Len(s))

\* String::split_off panics unless at is a character boundary
can_split_off(s, at) == is_char_boundary(s, at)
split_off_head(s, at) == SubSeq(s, 1, CharsBefore(s, at))
split_off_tail(s, at) == SubSeq(s, CharsBefore(s, at) + 1, Len(s))

String_pop(s) == IF s = <<>> THEN s ELSE SubSeq(s, 1, Len(s) - 1)

WhiteSpace == {" ", "\n", "\r", "\t"}
RECURSIVE trim_start(_)
trim_start(s) ==
    IF s # <<>> /\ Head(s) \in WhiteSpace THEN trim_start(Tail(s)) ELSE s
RECURSIVE trim_end(_)
trim_end(s) ==
    IF s # <<>> /\ s[Len(s)] \in WhiteSpace
    THEN trim_end(SubSeq(s, 1, Len(s) - 1)) ELSE s
trim(s) == trim_end(trim_start(s))

RECURSIVE Concat(_)
Concat(ss) == IF ss = <<>> THEN <<>> ELSE Head(ss) \o Concat(Tail(ss))

\* [String]::join("\n")
RECURSIVE join_lines(_)
join_lines(ls) ==
    IF ls = <<>> THEN <<>>
    ELSE IF Len(ls) = 1 THEN ls[1]
    ELSE ls[1] \o <<"\n">> \o join_lines(Tail(ls))

\* str::split_inclusive('\n'): the pieces, each ending with its newline,
\* the last one possibly without; no piece for the empty string
RECURSIVE split_inclusive(_, _)
split_inclusive(s, cur) ==
    IF s = <<>> THEN (IF cur = <<>> THEN <<>> ELSE <<cur>>)
    ELSE IF Head(s) = "\n" THEN <<cur \o <<"\n">> >> \o split_inclusive(Tail(s), <<>>)
    ELSE split_inclusive(Tail(s), cur \o <<Head(s)>>)

\* split_lines_preserve dropping the empty lines
split_lines_skip_empty(s) ==
    LET pieces == split_inclusive(s, <<>>)
        out == [i \in 1..Len(pieces) |->
                  IF pieces[i][Len(pieces[i])] = "\n"
                  THEN SubSeq(pieces[i], 1, Len(pieces[i]) - 1)
                  ELSE pieces[i]]
        kept == SelectSeq(out, LAMBDA l : l # <<>>)
    IN IF kept = <<>> THEN << <<>> >> ELSE kept

\* split_lines_preserve with an empty last line after a final newline
split_lines_trailing_empty(s) ==
    LET pieces == split_inclusive(s, <<>>)
        out == [i \in 1..Len(pieces) |->
                  IF pieces[i][Len(pieces[i])] = "\n"
                  THEN SubSeq(pieces[i], 1, Len(pieces[i]) - 1)
                  ELSE pieces[i]]
    IN IF out = <<>> THEN << <<>> >>
       ELSE IF s[Len(s)] = "\n" THEN out \o << <<>> >> ELSE out

split_lines_preserve(s) ==
    LET pieces == split_inclusive(s, <<>>)
        out == [i \in 1..Len(pieces) |->
                  IF pieces[i][Len(pieces[i])] = "\n"
                  THEN SubSeq(pieces[i], 1, Len(pieces[i]) - 1)
                  ELSE pieces[i]]
    IN IF out = <<>> THEN << <<>> >> ELSE out

(***************************************************************************)
(* Paths (std::path, Unix).                                                *)
(***************************************************************************)
\* the components of a path written as a string: "/" separates, empty and
\* "." components are dropped
RECURSIVE Components(_, _)
Components(s, cur) ==
    LET done == IF cur = <<>> \/ cur = <<".">> THEN <<>> ELSE <<cur>>
    IN IF s = <<>> THEN done
       ELSE IF Head(s) = "/" THEN done \o Components(Tail(s), <<>>)
       ELSE Components(Tail(s), cur \o <<Head(s)>>)

\* Path::join: an absolute argument replaces the base
path_join(dir, s) ==
    IF s # <<>> /\ Head(s) = "/" THEN Components(s, <<>>)
    ELSE dir \o Components(s, <<>>)

\* Path::parent
parent(p) == IF p = <<>> THEN None ELSE Some(SubSeq(p, 1, Len(p) - 1))

DotDot == <<".", ".">>

\* Path::file_name
file_name(p) ==
    IF p = <<>> \/ p[Len(p)] = DotDot THEN None ELSE Some(p[Len(p)])

\* position of the last '.' of a name, 0 if there is none
LastDot(n) ==
    IF \E i \in 1..Len(n) : n[i] = "."
    THEN CHOOSE i \in 1..Len(n) : n[i] = "." /\ \A j \in (i + 1)..Len(n) : n[j] # "."
    ELSE 0

\* Path::file_stem: the name up to its last '.', the whole name when it has
\* no '.' or only a leading one
file_stem(p) ==
    IF file_name(p) = None THEN None
    ELSE LET n == unwrap(file_name(p))
             d == LastDot(n)
         IN IF d <= 1 THEN Some(n) ELSE Some(SubSeq(n, 1, d - 1))

starts_with_dot(n) == n # <<>> /\ Head(n) = "."

MdExt == <<".", "m", "d">>

(***************************************************************************)
(* The file system: files maps the path of each regular file to its text,  *)
(* dirs is the set of directories.  ".." is resolved lexically.            *)
(***************************************************************************)
RECURSIVE Resolve(_)
Resolve(p) ==
    IF p = <<>> THEN <<>>
    ELSE LET q == Resolve(SubSeq(p, 1, Len(p) - 1))
         IN IF p[Len(p)] = DotDot THEN (IF q = <<>> THEN q ELSE SubSeq(q, 1, Len(q) - 1))
            ELSE q \o <<p[Len(p)]>>

is_file(fs, p) == Resolve(p) \in DOMAIN fs.files
is_dir(fs, p) == Resolve(p) \in fs.dirs

Prefixes(p) == {SubSeq(p, 1, i) : i \in 0..Len(p)}

FilePut(files, p, text) ==
    [q \in (DOMAIN files) \cup {p} |-> IF q = p THEN text ELSE files[q]]
FileDrop(files, p) == [q \in (DOMAIN files) \ {p} |-> files[q]]

\* outcome of an I/O call as the environment decides it
IoOk == "ok"
IoErr == "err"

\* fs::create_dir_all
can_create_dir_all(fs, d) == \A q \in Prefixes(Resolve(d)) : q \notin DOMAIN fs.files
create_dir_all(fs, d) == [fs EXCEPT !.dirs = @ \cup Prefixes(Resolve(d))]

\* write_note: create the parent directories, create (truncate) the file,
\* write the text.  res: "ok", "err_mkdir", "err_create" or "err_write".
write_note(fs, path, content, res) ==
    LET rp == Resolve(path)
        par == IF rp = <<>> THEN <<>> ELSE SubSeq(rp, 1, Len(rp) - 1)
        fs1 == create_dir_all(fs, par)
    IN IF res = "err_mkdir" \/ ~can_create_dir_all(fs, par)
       THEN [ok |-> FALSE, fs |-> fs]
       ELSE IF res = "err_create" \/ rp \in fs1.dirs
       THEN [ok |-> FALSE, fs |-> fs1]
       ELSE IF res = "err_write"
       THEN [ok |-> FALSE, fs |-> [fs1 EXCEPT !.files = FilePut(@, rp, <<>>)]]
       ELSE [ok |-> TRUE, fs |-> [fs1 EXCEPT !.files = FilePut(@, rp, content)]]

\* rename_note: fs::rename replaces an existing destination file
rename_note(fs, old, new, res) ==
    LET ro == Resolve(old)
        rn == Resolve(new)
    IN IF old = new THEN [ok |-> TRUE, fs |-> fs]
       ELSE IF res # IoOk \/ ro \notin DOMAIN fs.files \/ rn \in fs.dirs
               \/ ~can_create_dir_all(fs, SubSeq(rn, 1, Len(rn) - 1))
               \/ SubSeq(rn, 1, Len(rn) - 1) \notin fs.dirs
       THEN [ok |-> FALSE, fs |-> fs]
       ELSE IF ro = rn THEN [ok |-> TRUE, fs |-> fs]
       ELSE [ok |-> TRUE,
             fs |-> [fs EXCEPT !.files = FileDrop(FilePut(@, rn, fs.files[ro]), ro)]]

\* std::fs::remove_file
remove_file(fs, path, res) ==
    IF res # IoOk \/ ~is_file(fs, path) THEN [ok |-> FALSE, fs |-> fs]
    ELSE [ok |-> TRUE, fs |-> [fs EXCEPT !.files = FileDrop(@, Resolve(path))]]

\* read_note
read_note(fs, path, res) ==
    IF res # IoOk \/ ~is_file(fs, path) THEN [ok |-> FALSE, text |-> <<>>]
    ELSE [ok |-> TRUE, text |-> fs.files[Resolve(path)]]

(***************************************************************************)
(* The note tree (src/fs/ops.rs).                                          *)
(***************************************************************************)
\* the characters of the model in code point order (str::cmp is bytewise)
CodePointOrder ==
    <<"\t", "\n", "\r", " ", ".", "/", "1", "2", "3", "4", "A", "B", "N", "Y", "\\",
      "a", "b", "c", "d", "h", "l", "m", "n", "q", "r", "s", "x", "y", "é">>
Rank(c) == CHOOSE i \in 1..Len(CodePointOrder) : CodePointOrder[i] = c

char_to_lowercase(c) ==
    CASE c = "A" -> "a" [] c = "B" -> "b" [] c = "N" -> "n" [] c = "Y" -> "y"
      [] OTHER -> c
to_lowercase(s) == [i \in 1..Len(s) |-> char_to_lowercase(s[i])]

\* Ord for str: lexicographic
RECURSIVE str_lt(_, _)
str_lt(a, b) ==
    IF b = <<>> THEN FALSE
    ELSE IF a = <<>> THEN TRUE
    ELSE IF Head(a) # Head(b) THEN Rank(Head(a)) < Rank(Head(b))
    ELSE str_lt(Tail(a), Tail(b))

\* the comparator with the names compared as they are, case included
node_cmp_less_raw_names(a, b) ==
    IF a.is_dir # b.is_dir THEN a.is_dir
    ELSE str_lt(a.name, b.name)

\* the comparator of children.sort_by: directories first, each group by
\* lower-cased name
node_cmp_less(a, b) ==
    IF a.is_dir # b.is_dir THEN a.is_dir
    ELSE str_lt(to_lowercase(a.name), to_lowercase(b.name))

\* the order of the sorted children; names equal up to case keep the order
\* read_dir listed them in, taken here to be the order of the raw names
NodeBefore(a, b) ==
    \/ node_cmp_less(a, b)
    \/ ~node_cmp_less(b, a) /\ str_lt(a.name, b.name)

RECURSIVE sort_children(_)
sort_children(S) ==
    IF S = {} THEN <<>>
    ELSE LET m == CHOOSE x \in S : \A y \in S \ {x} : NodeBefore(x, y)
         IN <<m>> \o sort_children(S \ {m})

\* entries of directory dir, as read_dir lists them
DirEntries(fs, dir) ==
    {p \in fs.dirs \cup DOMAIN fs.files :
        Len(p) = Len(dir) + 1 /\ SubSeq(p, 1, Len(dir)) = dir}

RECURSIVE build_notes_tree(_, _)
build_notes_tree(fs, dir) ==
    LET shown == {p \in DirEntries(fs, dir) : ~starts_with_dot(p[Len(p)])}
        nodes == {IF p \in fs.dirs THEN build_notes_tree(fs, p)
                  ELSE [is_dir |-> FALSE, name |-> p[Len(p)], path |-> p,
                        children |-> <<>>] : p \in shown}
    IN [is_dir |-> TRUE,
        name |-> IF dir = <<>> THEN <<"/">> ELSE dir[Len(dir)],
        path |-> dir,
        children |-> sort_children(nodes)]

\* flatten_node that hands its own ancestors_last to the children unchanged
RECURSIVE flatten_node_no_push(_, _, _, _, _)
flatten_node_no_push(node, depth, expanded, last_in_parent, ancestors_last) ==
    IF node.is_dir
    THEN LET is_expanded == node.path \in expanded
             row == [name |-> node.name, depth |-> depth, path |-> node.path,
                     is_dir |-> TRUE, expanded |-> is_expanded,
                     last_in_parent |-> last_in_parent,
                     last_ancestors |-> ancestors_last]
             n == Len(node.children)
         IN IF is_expanded
            THEN <<row>> \o
                 Concat([i \in 1..n |->
                           flatten_node_no_push(node.children[i], depth + 1, expanded,
                                                i = n, ancestors_last)])
            ELSE <<row>>
    ELSE << [name |-> node.name, depth |-> depth, path |-> node.path,
             is_dir |-> FALSE, expanded |-> FALSE,
             last_in_parent |-> last_in_parent,
             last_ancestors |-> ancestors_last] >>

RECURSIVE flatten_node(_, _, _, _, _)
flatten_node(node, depth, expanded, last_in_parent, ancestors_last) ==
    IF node.is_dir
    THEN LET is_expanded == node.path \in expanded
             row == [name |-> node.name, depth |-> depth, path |-> node.path,
                     is_dir |-> TRUE, expanded |-> is_expanded,
                     last_in_parent |-> last_in_parent,
                     last_ancestors |-> ancestors_last]
             n == Len(node.children)
         IN IF is_expanded
            THEN <<row>> \o
                 Concat([i \in 1..n |->
                           flatten_node(node.children[i], depth + 1, expanded, i = n,
                                        ancestors_last \o <<last_in_parent>>)])
            ELSE <<row>>
    ELSE << [name |-> node.name, depth |-> depth, path |-> node.path,
             is_dir |-> FALSE, expanded |-> FALSE,
             last_in_parent |-> last_in_parent,
             last_ancestors |-> ancestors_last] >>

\* flatten_tree_for_sidebar that emits the root as a row of its own
flatten_tree_for_sidebar_with_root(root, expanded) ==
    flatten_node(root, 0, expanded, TRUE, <<>>)

flatten_tree_for_sidebar(root, expanded) ==
    IF root.is_dir
    THEN LET n == Len(root.children)
         IN Concat([i \in 1..n |->
                      flatten_node(root.children[i], 0, expanded, i = n, <<>>)])
    ELSE flatten_node(root, 0, expanded, TRUE, <<>>)

\* App::build_sidebar; res is the outcome of reading the directories
build_sidebar(fs, notes_dir, expanded, res) ==
    IF res # IoOk THEN [ok |-> FALSE, items |-> <<>>]
    ELSE [ok |-> TRUE,
          items |-> flatten_tree_for_sidebar(build_notes_tree(fs, notes_dir), expanded)]

(***************************************************************************)
(* The file system the notes directory starts with.                        *)
(***************************************************************************)
NotesDir == << <<"n">> >>
DirA == NotesDir \o << <<"a">> >>
FileX == DirA \o << <<"x">> \o MdExt >>
FileB == NotesDir \o << <<"b">> \o MdExt >>

Fs0 ==
    [files |-> (FileX :> <<"a", "\n", "é">>) @@ (FileB :> <<"b">>),
     dirs |-> {<<>>, NotesDir, DirA}]

(***************************************************************************)
(* Key events (crossterm KeyEvent: code, character, modifiers).            *)
(***************************************************************************)
Ch(c) == [code |-> "Char", ch |-> c, mods |-> "NONE"]
Shift(c) == [code |-> "Char", ch |-> c, mods |-> "SHIFT"]
Ctrl(c) == [code |-> "Char", ch |-> c, mods |-> "CONTROL"]
Key(code) == [code |-> code, ch |-> "", mods |-> "NONE"]

is_char(key, c) == key.code = "Char" /\ key.ch = c
mods_empty(key) == key.mods = "NONE"
has_control(key) == key.mods = "CONTROL"

\* what the environment answers to the I/O of one key event
IoAllOk ==
    [write |-> "ok", rename |-> IoOk, read |-> IoOk, remove |-> IoOk,
     build |-> IoOk, commits |-> 0]

(***************************************************************************)
(* App (src/app.rs).  The operators below take the application state a, a  *)
(* record of the fields of App plus the file system fs and the state of    *)
(* the event loop run: "running", "quit" (handle_key returned Ok(true)),   *)
(* "error" (handle_key returned Err, the loop exits) or "panic".           *)
(***************************************************************************)
Panic(a) == [a EXCEPT !.run = "panic"]

RightFocus_into(rf) == IF rf = "Title" THEN "Title" ELSE "Content"

\* the window of ensure_cursor_visible
window == 20

ensure_cursor_visible(a) ==
    IF a.cursor_row < a.scroll_y THEN [a EXCEPT !.scroll_y = a.cursor_row]
    ELSE IF a.cursor_row >= a.scroll_y + window
    THEN [a EXCEPT !.scroll_y = a.cursor_row + 1 - window]
    ELSE a

\* Vec::remove / Vec::insert on the lines (0-based index)
Vec_remove(v, i) == SubSeq(v, 1, i) \o SubSeq(v, i + 2, Len(v))
Vec_insert(v, i, x) == SubSeq(v, 1, i) \o <<x>> \o SubSeq(v, i + 1, Len(v))

cur_line(a) == a.lines[a.cursor_row + 1]

\* content_left that stops at column 0 instead of going to the previous line
content_left_stays_on_line(a) ==
    IF a.cursor_col > 0 THEN [a EXCEPT !.cursor_col = @ - 1] ELSE a

content_left(a) ==
    IF a.cursor_col > 0 THEN [a EXCEPT !.cursor_col = @ - 1]
    ELSE IF a.cursor_row > 0
    THEN [a EXCEPT !.cursor_row = @ - 1, !.cursor_col = len(a.lines[a.cursor_row])]
    ELSE a

content_right(a) ==
    IF a.cursor_col < len(cur_line(a)) THEN [a EXCEPT !.cursor_col = @ + 1]
    ELSE IF a.cursor_row + 1 < Len(a.lines)
    THEN [a EXCEPT !.cursor_row = @ + 1, !.cursor_col = 0]
    ELSE a

\* content_up without the clamp of the column to the new line
content_up_unclamped(a) ==
    IF a.cursor_row > 0 THEN [a EXCEPT !.cursor_row = @ - 1] ELSE a

content_up(a) ==
    IF a.cursor_row > 0
    THEN [a EXCEPT !.cursor_row = @ - 1,
                   !.cursor_col = Min(@, len(a.lines[a.cursor_row]))]
    ELSE a

content_down(a) ==
    IF a.cursor_row + 1 < Len(a.lines)
    THEN [a EXCEPT !.cursor_row = @ + 1,
                   !.cursor_col = Min(@, len(a.lines[a.cursor_row + 2]))]
    ELSE a

content_home(a) == [a EXCEPT !.cursor_col = 0]

content_end(a) == [a EXCEPT !.cursor_col = len(cur_line(a))]

\* content_backspace leaving the cursor at column 0 after joining two lines
content_backspace_col_zero(a) ==
    IF a.cursor_col > 0
    THEN IF ~can_remove(cur_line(a), a.cursor_col - 1) THEN Panic(a)
         ELSE [a EXCEPT !.lines[a.cursor_row + 1] = String_remove(@, a.cursor_col - 1),
                        !.cursor_col = @ - 1,
                        !.dirty = TRUE]
    ELSE IF a.cursor_row > 0
    THEN LET curr == cur_line(a)
             removed == Vec_remove(a.lines, a.cursor_row)
         IN [a EXCEPT !.lines = [removed EXCEPT ![a.cursor_row] = @ \o curr],
                      !.cursor_row = @ - 1,
                      !.cursor_col = 0,
                      !.dirty = TRUE]
    ELSE [a EXCEPT !.dirty = TRUE]

content_backspace(a) ==
    IF a.cursor_col > 0
    THEN IF ~can_remove(cur_line(a), a.cursor_col - 1) THEN Panic(a)
         ELSE [a EXCEPT !.lines[a.cursor_row + 1] = String_remove(@, a.cursor_col - 1),
                        !.cursor_col = @ - 1,
                        !.dirty = TRUE]
    ELSE IF a.cursor_row > 0
    THEN LET prev_len == len(a.lines[a.cursor_row])
             curr == cur_line(a)
             removed == Vec_remove(a.lines, a.cursor_row)
         IN [a EXCEPT !.lines = [removed EXCEPT ![a.cursor_row] = @ \o curr],
                      !.cursor_row = @ - 1,
                      !.cursor_col = prev_len,
                      !.dirty = TRUE]
    ELSE [a EXCEPT !.dirty = TRUE]

content_delete(a) ==
    IF a.cursor_col < len(cur_line(a))
    THEN IF ~can_remove(cur_line(a), a.cursor_col) THEN Panic(a)
         ELSE [a EXCEPT !.lines[a.cursor_row + 1] = String_remove(@, a.cursor_col),
                        !.dirty = TRUE]
    ELSE IF a.cursor_row + 1 < Len(a.lines)
    THEN LET next == a.lines[a.cursor_row + 2]
             removed == Vec_remove(a.lines, a.cursor_row + 1)
         IN [a EXCEPT !.lines = [removed EXCEPT ![a.cursor_row + 1] = @ \o next],
                      !.dirty = TRUE]
    ELSE [a EXCEPT !.dirty = TRUE]

\* content_enter leaving the column where it was
content_enter_keeps_col(a) ==
    IF ~can_split_off(cur_line(a), a.cursor_col) THEN Panic(a)
    ELSE LET rest == split_off_tail(cur_line(a), a.cursor_col)
             kept == [a.lines EXCEPT ![a.cursor_row + 1] = split_off_head(@, a.cursor_col)]
         IN [a EXCEPT !.lines = Vec_insert(kept, a.cursor_row + 1, rest),
                      !.cursor_row = @ + 1,
                      !.cursor_col = Min(@, len(rest)),
                      !.dirty = TRUE]

content_enter(a) ==
    IF ~can_split_off(cur_line(a), a.cursor_col) THEN Panic(a)
    ELSE LET rest == split_off_tail(cur_line(a), a.cursor_col)
             kept == [a.lines EXCEPT ![a.cursor_row + 1] = split_off_head(@, a.cursor_col)]
         IN [a EXCEPT !.lines = Vec_insert(kept, a.cursor_row + 1, rest),
                      !.cursor_row = @ + 1,
                      !.cursor_col = 0,
                      !.dirty = TRUE]

content_char(a, c) ==
    IF ~can_insert(cur_line(a), a.cursor_col) THEN Panic(a)
    ELSE [a EXCEPT !.lines[a.cursor_row + 1] = String_insert(@, a.cursor_col, c),
                   !.cursor_col = @ + 1,
                   !.dirty = TRUE]

handle_content_key(a0, key) ==
    LET a == [a0 EXCEPT !.last_right_focus = "Content"]
        b == CASE key.code = "Left" -> content_left(a)
               [] key.code = "Right" -> content_right(a)
               [] key.code = "Up" -> content_up(a)
               [] key.code = "Down" -> content_down(a)
               [] key.code = "Home" -> content_home(a)
               [] key.code = "End" -> content_end(a)
               [] key.code = "Backspace" -> content_backspace(a)
               [] key.code = "Delete" -> content_delete(a)
               [] key.code = "Enter" -> content_enter(a)
               [] key.code = "Char" /\ ~has_control(key) -> content_char(a, key.ch)
               [] OTHER -> a
    IN IF b.run = "panic" THEN b ELSE ensure_cursor_visible(b)

title_char(a, c) ==
    IF c # "/" /\ c # "\\" /\ c # "." /\ c # "\n" /\ c # "\r"
    THEN IF ~can_insert(a.title, a.title_cursor) THEN Panic(a)
         ELSE [a EXCEPT !.title = String_insert(@, a.title_cursor, c),
                        !.title_cursor = @ + 1,
                        !.dirty = TRUE]
    ELSE a

handle_title_key(a0, key) ==
    LET a == [a0 EXCEPT !.last_right_focus = "Title"]
    IN CASE key.code = "Left" ->
              IF a.title_cursor > 0 THEN [a EXCEPT !.title_cursor = @ - 1] ELSE a
         [] key.code = "Right" ->
              IF a.title_cursor < len(a.title) THEN [a EXCEPT !.title_cursor = @ + 1] ELSE a
         [] key.code = "Home" -> [a EXCEPT !.title_cursor = 0]
         [] key.code = "End" -> [a EXCEPT !.title_cursor = len(a.title)]
         [] key.code = "Backspace" ->
              IF a.title_cursor > 0
              THEN IF ~can_remove(a.title, a.title_cursor - 1) THEN Panic(a)
                   ELSE [a EXCEPT !.title = String_remove(@, a.title_cursor - 1),
                                  !.title_cursor = @ - 1,
                                  !.dirty = TRUE]
              ELSE a
         [] key.code = "Delete" ->
              IF a.title_cursor < len(a.title)
              THEN IF ~can_remove(a.title, a.title_cursor) THEN Panic(a)
                   ELSE [a EXCEPT !.title = String_remove(@, a.title_cursor),
                                  !.dirty = TRUE]
              ELSE a
         [] key.code = "Char" /\ ~has_control(key) -> title_char(a, key.ch)
         [] OTHER -> a

\* status messages, by their fixed text or prefix
MsgNoCommits == "No commits found in notes folder or git not initialized"
MsgFetched == "Fetched and refreshed commits"
MsgDeleted == "Deleted"
MsgDeleteFailed == "Delete failed"
MsgNewNote == "New note will be created in"

\* refresh_sidebar_preserve_selection that starts again from the root alone
\* expanded
refresh_sidebar_forgets_expansion(a, prefer_idx, io) ==
    LET old_idx == IF is_some(prefer_idx) THEN prefer_idx ELSE a.selected
        items == build_sidebar(a.fs, NotesDir, {NotesDir}, io.build).items
    IN IF items # <<>>
       THEN [a EXCEPT !.sidebar_items = items, !.expanded_dirs = {NotesDir},
                      !.selected = Some(Min(unwrap_or(old_idx, 0), Len(items) - 1))]
       ELSE [a EXCEPT !.sidebar_items = items, !.expanded_dirs = {NotesDir},
                      !.selected = None]

refresh_sidebar_preserve_selection(a, prefer_idx, io) ==
    LET old_idx == IF is_some(prefer_idx) THEN prefer_idx ELSE a.selected
        items == build_sidebar(a.fs, NotesDir, a.expanded_dirs, io.build).items
    IN IF items # <<>>
       THEN [a EXCEPT !.sidebar_items = items,
                      !.selected = Some(Min(unwrap_or(old_idx, 0), Len(items) - 1))]
       ELSE [a EXCEPT !.sidebar_items = items, !.selected = None]

refresh_sidebar_select_path(a, path, io) ==
    LET b == refresh_sidebar_preserve_selection(a, None, io)
        hits == {i \in 1..Len(b.sidebar_items) :
                    ~b.sidebar_items[i].is_dir /\ b.sidebar_items[i].path = path}
    IN IF hits # {}
       THEN [b EXCEPT !.selected = Some((CHOOSE i \in hits : \A j \in hits : i <= j) - 1)]
       ELSE b

open_file(a, path, io) ==
    LET content == read_note(a.fs, path, io.read).text
        title == unwrap_or(file_stem(path), <<>>)
    IN [a EXCEPT !.title = title,
                 !.title_cursor = len(title),
                 !.lines = split_lines_preserve(content),
                 !.cursor_row = 0,
                 !.cursor_col = 0,
                 !.scroll_y = 0,
                 !.opened_path = Some(path),
                 !.dirty = FALSE,
                 !.focus = RightFocus_into(a.last_right_focus)]

\* the path save_current writes to
save_target(a) ==
    path_join(unwrap_or(a.new_note_dir, NotesDir), trim(a.title) \o MdExt)

save_current(a, io) ==
    IF trim(a.title) = <<>> THEN a
    ELSE LET new_path == save_target(a)
             content == join_lines(a.lines)
             w == write_note(a.fs, new_path, content, io.write)
             renamed == IF is_some(a.opened_path) /\ unwrap(a.opened_path) # new_path
                        THEN rename_note(w.fs, unwrap(a.opened_path), new_path, io.rename).fs
                        ELSE w.fs
         IN IF ~w.ok THEN [a EXCEPT !.fs = w.fs, !.run = "error"]
            ELSE refresh_sidebar_select_path(
                     [a EXCEPT !.fs = renamed,
                               !.opened_path = Some(new_path),
                               !.dirty = FALSE,
                               !.new_note_dir = None],
                     new_path, io)

\* sidebar_toggle_dir that changes the expansion set and leaves the rows stale
sidebar_toggle_dir_no_refresh(a, idx, io) ==
    IF idx >= Len(a.sidebar_items) THEN a
    ELSE LET item == a.sidebar_items[idx + 1]
         IN IF ~item.is_dir THEN a
            ELSE IF item.path \in a.expanded_dirs
            THEN [a EXCEPT !.expanded_dirs = @ \ {item.path}, !.selected = Some(idx)]
            ELSE [a EXCEPT !.expanded_dirs = @ \cup {item.path}, !.selected = Some(idx)]

\* sidebar_toggle_dir whose collapse also forgets the expanded directories
\* nested inside the collapsed one
sidebar_toggle_dir_forgets_nested(a, idx, io) ==
    IF idx >= Len(a.sidebar_items) THEN a
    ELSE LET item == a.sidebar_items[idx + 1]
         IN IF ~item.is_dir THEN a
            ELSE IF item.path \in a.expanded_dirs
            THEN refresh_sidebar_preserve_selection(
                     [a EXCEPT !.expanded_dirs =
                         {q \in @ : ~(Len(q) >= Len(item.path)
                                       /\ SubSeq(q, 1, Len(item.path)) = item.path)}],
                     Some(idx), io)
            ELSE refresh_sidebar_preserve_selection(
                     [a EXCEPT !.expanded_dirs = @ \cup {item.path}], Some(idx), io)

sidebar_toggle_dir(a, idx, io) ==
    IF idx >= Len(a.sidebar_items) THEN a
    ELSE LET item == a.sidebar_items[idx + 1]
         IN IF ~item.is_dir THEN a
            ELSE IF item.path \in a.expanded_dirs
            THEN refresh_sidebar_preserve_selection(
                     [a EXCEPT !.expanded_dirs = @ \ {item.path}], Some(idx), io)
            ELSE refresh_sidebar_preserve_selection(
                     [a EXCEPT !.expanded_dirs = @ \cup {item.path}], Some(idx), io)

sidebar_enter_action(a, idx, io) ==
    IF idx >= Len(a.sidebar_items) THEN a
    ELSE IF a.sidebar_items[idx + 1].is_dir THEN sidebar_toggle_dir(a, idx, io)
    ELSE open_file(a, a.sidebar_items[idx + 1].path, io)

ModalConfirmDelete(path) ==
    [kind |-> "ConfirmDelete", path |-> path, current |-> <<>>, target_dir |-> <<>>]
ModalInputName(current, target_dir) ==
    [kind |-> "InputName", path |-> <<>>, current |-> current, target_dir |-> target_dir]

handle_sidebar_key(a, key, io) ==
    LET n == Len(a.sidebar_items)
        selected == unwrap_or(a.selected, 0)
    IN CASE key.code = "Up" ->
              IF n > 0 THEN [a EXCEPT !.selected = Some(saturating_sub(selected, 1))] ELSE a
         [] key.code = "Down" ->
              IF n > 0 THEN [a EXCEPT !.selected = Some(Min(selected + 1, n - 1))] ELSE a
         [] key.code = "Enter" -> sidebar_enter_action(a, selected, io)
         [] is_char(key, " ") -> sidebar_toggle_dir(a, selected, io)
         [] key.code = "Right" -> sidebar_enter_action(a, selected, io)
         [] is_char(key, "d") ->
              IF selected < n /\ ~a.sidebar_items[selected + 1].is_dir
              THEN [a EXCEPT !.modal =
                       Some(ModalConfirmDelete(a.sidebar_items[selected + 1].path))]
              ELSE a
         [] OTHER -> a

\* GitSection
\* select_next that steps past the last commit
select_next_unclamped(a) ==
    IF a.commits > 0 THEN [a EXCEPT !.git_selected = @ + 1] ELSE a

select_next(a) ==
    IF a.commits > 0 THEN [a EXCEPT !.git_selected = Min(@ + 1, a.commits - 1)] ELSE a
select_prev(a) ==
    IF a.commits > 0 THEN [a EXCEPT !.git_selected = saturating_sub(@, 1)] ELSE a
\* fetch_and_refresh: the history is read again and the selection reset
fetch_and_refresh(a, io) == [a EXCEPT !.commits = io.commits, !.git_selected = 0]

handle_commits_key(a, key, io) ==
    CASE key.code = "Up" -> select_prev(a)
      [] key.code = "Down" -> select_next(a)
      [] key.code = "Home" -> IF a.commits > 0 THEN [a EXCEPT !.git_selected = 0] ELSE a
      [] key.code = "End" ->
           IF a.commits > 0 THEN [a EXCEPT !.git_selected = a.commits - 1] ELSE a
      [] key.code = "Left" -> [a EXCEPT !.focus = "Sidebar"]
      [] key.code = "Right" -> [a EXCEPT !.focus = RightFocus_into(a.last_right_focus)]
      [] is_char(key, "r") /\ mods_empty(key) ->
           [fetch_and_refresh(a, io) EXCEPT !.status_message = Some(MsgFetched)]
      [] OTHER -> a

\* modal_confirm_delete with every unbound key taken as a cancel
modal_confirm_delete_any_cancels(a, m, key, io) ==
    IF key.code = "Char" /\ key.ch \in {"y", "Y"}
    THEN LET r == remove_file(a.fs, m.path, io.remove)
         IN IF ~r.ok
            THEN [a EXCEPT !.status_message = Some(MsgDeleteFailed), !.modal = None]
            ELSE [refresh_sidebar_preserve_selection(
                      [a EXCEPT !.fs = r.fs, !.status_message = Some(MsgDeleted)],
                      None, io)
                  EXCEPT !.modal = None]
    ELSE [a EXCEPT !.modal = None]

\* modal_confirm_delete that leaves the rows as they were after the delete
modal_confirm_delete_no_refresh(a, m, key, io) ==
    CASE key.code = "Char" /\ key.ch \in {"y", "Y"} ->
           LET r == remove_file(a.fs, m.path, io.remove)
           IN IF ~r.ok
              THEN [a EXCEPT !.status_message = Some(MsgDeleteFailed), !.modal = None]
              ELSE [a EXCEPT !.fs = r.fs, !.status_message = Some(MsgDeleted),
                             !.modal = None]
      [] key.code = "Esc" \/ (key.code = "Char" /\ key.ch \in {"n", "N"}) ->
           [a EXCEPT !.modal = None]
      [] OTHER -> a

modal_confirm_delete(a, m, key, io) ==
    CASE key.code = "Char" /\ key.ch \in {"y", "Y"} ->
           LET r == remove_file(a.fs, m.path, io.remove)
           IN IF ~r.ok
              THEN [a EXCEPT !.status_message = Some(MsgDeleteFailed), !.modal = None]
              ELSE [refresh_sidebar_preserve_selection(
                        [a EXCEPT !.fs = r.fs, !.status_message = Some(MsgDeleted)],
                        None, io)
                    EXCEPT !.modal = None]
      [] key.code = "Esc" \/ (key.code = "Char" /\ key.ch \in {"n", "N"}) ->
           [a EXCEPT !.modal = None]
      [] OTHER -> a

\* input_name_enter adopting the buffer as typed, without trim
input_name_enter_untrimmed(a, m) ==
    IF trim(m.current) # <<>>
    THEN [a EXCEPT !.title = m.current,
                   !.title_cursor = len(m.current),
                   !.lines = << <<>> >>,
                   !.cursor_row = 0,
                   !.cursor_col = 0,
                   !.scroll_y = 0,
                   !.new_note_dir = Some(m.target_dir),
                   !.opened_path = None,
                   !.dirty = TRUE,
                   !.focus = "Title",
                   !.last_right_focus = "Title",
                   !.status_message = Some(MsgNewNote),
                   !.modal = None]
    ELSE [a EXCEPT !.modal = None]

\* input_name_enter testing the buffer, not the trimmed buffer, for emptiness
input_name_enter_blank_adopted(a, m) ==
    IF m.current # <<>>
    THEN [a EXCEPT !.title = trim(m.current),
                   !.title_cursor = len(trim(m.current)),
                   !.lines = << <<>> >>,
                   !.cursor_row = 0,
                   !.cursor_col = 0,
                   !.scroll_y = 0,
                   !.new_note_dir = Some(m.target_dir),
                   !.opened_path = None,
                   !.dirty = TRUE,
                   !.focus = "Title",
                   !.last_right_focus = "Title",
                   !.status_message = Some(MsgNewNote),
                   !.modal = None]
    ELSE [a EXCEPT !.modal = None]

input_name_enter(a, m) ==
    IF trim(m.current) # <<>>
    THEN [a EXCEPT !.title = trim(m.current),
                   !.title_cursor = len(trim(m.current)),
                   !.lines = << <<>> >>,
                   !.cursor_row = 0,
                   !.cursor_col = 0,
                   !.scroll_y = 0,
                   !.new_note_dir = Some(m.target_dir),
                   !.opened_path = None,
                   !.dirty = TRUE,
                   !.focus = "Title",
                   !.last_right_focus = "Title",
                   !.status_message = Some(MsgNewNote),
                   !.modal = None]
    ELSE [a EXCEPT !.modal = None]

modal_input_name(a, m, key) ==
    CASE key.code = "Char" /\ ~has_control(key) ->
           [a EXCEPT !.modal = Some([m EXCEPT !.current = @ \o <<key.ch>>])]
      [] key.code = "Backspace" ->
           [a EXCEPT !.modal = Some([m EXCEPT !.current = String_pop(@)])]
      [] key.code = "Enter" -> input_name_enter(a, m)
      [] key.code = "Esc" -> [a EXCEPT !.modal = None]
      [] OTHER -> a

handle_modal_key(a, key, io) ==
    IF is_some(a.modal)
    THEN LET m == unwrap(a.modal)
         IN IF m.kind = "ConfirmDelete" THEN modal_confirm_delete(a, m, key, io)
            ELSE modal_input_name(a, m, key)
    ELSE a

\* the target directory of a new note request
new_note_target(a) ==
    IF a.focus = "Sidebar" /\ is_some(a.selected)
       /\ unwrap(a.selected) < Len(a.sidebar_items)
    THEN LET it == a.sidebar_items[unwrap(a.selected) + 1]
         IN IF it.is_dir THEN it.path ELSE unwrap_or(parent(it.path), NotesDir)
    ELSE NotesDir

\* cycle_focus that never records the right-hand surface it enters
cycle_focus_keeps_right_focus(a) ==
    CASE a.focus = "Sidebar" -> [a EXCEPT !.focus = "Title"]
      [] a.focus = "Title" -> [a EXCEPT !.focus = "Content"]
      [] a.focus = "Content" -> [a EXCEPT !.focus = "Commits"]
      [] a.focus = "Commits" -> [a EXCEPT !.focus = "Sidebar"]

\* the Tab arm of handle_key
cycle_focus(a) ==
    CASE a.focus = "Sidebar" -> [a EXCEPT !.last_right_focus = "Title", !.focus = "Title"]
      [] a.focus = "Title" -> [a EXCEPT !.last_right_focus = "Content", !.focus = "Content"]
      [] a.focus = "Content" -> [a EXCEPT !.focus = "Commits"]
      [] a.focus = "Commits" -> [a EXCEPT !.focus = "Sidebar"]

\* go_left_right with l always going to the title
go_left_right_l_to_title(a, key) ==
    IF mods_empty(key) /\ is_char(key, "h") THEN [a EXCEPT !.focus = "Sidebar"]
    ELSE IF mods_empty(key) /\ is_char(key, "l") THEN [a EXCEPT !.focus = "Title"]
    ELSE a

\* go_left_right without the h arm
go_left_right_without_h(a, key) ==
    IF mods_empty(key) /\ is_char(key, "l")
    THEN [a EXCEPT !.focus = RightFocus_into(a.last_right_focus)]
    ELSE a

\* the h / l arm of handle_key, which does not return
go_left_right(a, key) ==
    IF mods_empty(key) /\ is_char(key, "h") THEN [a EXCEPT !.focus = "Sidebar"]
    ELSE IF mods_empty(key) /\ is_char(key, "l")
    THEN [a EXCEPT !.focus = RightFocus_into(a.last_right_focus)]
    ELSE a

\* the dispatch by focus that ends handle_key
dispatch_by_focus(a, key, io) ==
    CASE a.focus = "Sidebar" -> handle_sidebar_key(a, key, io)
      [] a.focus = "Title" -> handle_title_key(a, key)
      [] a.focus = "Content" -> handle_content_key(a, key)
      [] a.focus = "Commits" -> handle_commits_key(a, key, io)

\* the arrow keys outside Content: an arm that returns, or the dispatch
arrows_then_dispatch(a, key, io) ==
    IF a.focus # "Content" /\ key.code \in {"Up", "Down"} /\ a.focus = "Sidebar"
    THEN handle_sidebar_key(a, key, io)
    ELSE IF a.focus = "Commits" /\ key.code = "Up" THEN select_prev(a)
    ELSE IF a.focus = "Commits" /\ key.code = "Down" THEN select_next(a)
    ELSE IF key.code = "Left" /\ a.focus \in {"Commits", "Title"}
    THEN [a EXCEPT !.focus = "Sidebar"]
    ELSE IF key.code = "Right" /\ a.focus = "Sidebar"
    THEN sidebar_enter_action(a, unwrap_or(a.selected, 0), io)
    ELSE IF key.code = "Right" /\ a.focus = "Commits"
    THEN [a EXCEPT !.focus = RightFocus_into(a.last_right_focus)]
    ELSE dispatch_by_focus(a, key, io)

\* handle_key with the digits left to the body while it has the focus
handle_key_digits_typed(a, key, io) ==
    LET digit == a.focus # "Content" /\ mods_empty(key)
    IN IF is_some(a.modal) THEN handle_modal_key(a, key, io)
       ELSE IF digit /\ is_char(key, "1") THEN [a EXCEPT !.focus = "Sidebar"]
       ELSE IF digit /\ is_char(key, "2") THEN [a EXCEPT !.focus = "Title"]
       ELSE IF digit /\ is_char(key, "3") THEN [a EXCEPT !.focus = "Content"]
       ELSE IF digit /\ is_char(key, "4") THEN [a EXCEPT !.focus = "Commits"]
       ELSE IF is_char(key, "q") /\ mods_empty(key) THEN [a EXCEPT !.run = "quit"]
       ELSE IF is_char(key, "s") /\ has_control(key) THEN save_current(a, io)
       ELSE IF is_char(key, "n") /\ mods_empty(key)
       THEN [a EXCEPT !.modal = Some(ModalInputName(<<>>, new_note_target(a)))]
       ELSE LET b == go_left_right(a, key)
            IN IF key.code = "Tab" THEN cycle_focus(b)
               ELSE arrows_then_dispatch(b, key, io)

\* handle_key with the quit shortcut tested before the modal
handle_key_quit_first(a, key, io) ==
    IF is_char(key, "q") /\ mods_empty(key) THEN [a EXCEPT !.run = "quit"]
    ELSE IF is_some(a.modal) THEN handle_modal_key(a, key, io)
    ELSE IF mods_empty(key) /\ is_char(key, "1") THEN [a EXCEPT !.focus = "Sidebar"]
    ELSE IF mods_empty(key) /\ is_char(key, "2") THEN [a EXCEPT !.focus = "Title"]
    ELSE IF mods_empty(key) /\ is_char(key, "3") THEN [a EXCEPT !.focus = "Content"]
    ELSE IF mods_empty(key) /\ is_char(key, "4") THEN [a EXCEPT !.focus = "Commits"]
    ELSE IF is_char(key, "s") /\ has_control(key) THEN save_current(a, io)
    ELSE IF is_char(key, "n") /\ mods_empty(key)
    THEN [a EXCEPT !.modal = Some(ModalInputName(<<>>, new_note_target(a)))]
    ELSE LET b == go_left_right(a, key)
         IN IF key.code = "Tab" THEN cycle_focus(b)
            ELSE arrows_then_dispatch(b, key, io)

handle_key(a, key, io) ==
    IF is_some(a.modal) THEN handle_modal_key(a, key, io)
    ELSE IF mods_empty(key) /\ is_char(key, "1") THEN [a EXCEPT !.focus = "Sidebar"]
    ELSE IF mods_empty(key) /\ is_char(key, "2") THEN [a EXCEPT !.focus = "Title"]
    ELSE IF mods_empty(key) /\ is_char(key, "3") THEN [a EXCEPT !.focus = "Content"]
    ELSE IF mods_empty(key) /\ is_char(key, "4") THEN [a EXCEPT !.focus = "Commits"]
    ELSE IF is_char(key, "q") /\ mods_empty(key) THEN [a EXCEPT !.run = "quit"]
    ELSE IF is_char(key, "s") /\ has_control(key) THEN save_current(a, io)
    ELSE IF is_char(key, "n") /\ mods_empty(key)
    THEN [a EXCEPT !.modal = Some(ModalInputName(<<>>, new_note_target(a)))]
    ELSE LET b == go_left_right(a, key)
         IN IF key.code = "Tab" THEN cycle_focus(b)
            ELSE arrows_then_dispatch(b, key, io)

(***************************************************************************)
(* The state machine: the fields of App, the file system, the event loop.  *)
(***************************************************************************)
VARIABLES sidebar_items, expanded_dirs, selected, title, title_cursor, lines,
          cursor_row, cursor_col, scroll_y, opened_path, dirty, focus,
          last_right_focus, commits, git_selected, status_message, new_note_dir,
          modal, fs, run

appvars == <<sidebar_items, expanded_dirs, selected, title, title_cursor, lines,
             cursor_row, cursor_col, scroll_y, opened_path, dirty, focus,
             last_right_focus, commits, git_selected, status_message, new_note_dir,
             modal>>
vars == <<appvars, fs, run>>

App ==
    [sidebar_items |-> sidebar_items, expanded_dirs |-> expanded_dirs,
     selected |-> selected, title |-> title, title_cursor |-> title_cursor,
     lines |-> lines, cursor_row |-> cursor_row, cursor_col |-> cursor_col,
     scroll_y |-> scroll_y, opened_path |-> opened_path, dirty |-> dirty,
     focus |-> focus, last_right_focus |-> last_right_focus, commits |-> commits,
     git_selected |-> git_selected, status_message |-> status_message,
     new_note_dir |-> new_note_dir, modal |-> modal, fs |-> fs, run |-> run]

\* App::new on file system f with n commits in the history
App_new(f, n) ==
    LET items == build_sidebar(f, NotesDir, {NotesDir}, IoOk).items
    IN [sidebar_items |-> items, expanded_dirs |-> {NotesDir},
        selected |-> IF items # <<>> THEN Some(0) ELSE None,
        title |-> <<>>, title_cursor |-> 0, lines |-> << <<>> >>,
        cursor_row |-> 0, cursor_col |-> 0, scroll_y |-> 0,
        opened_path |-> None, dirty |-> FALSE, focus |-> "Sidebar",
        last_right_focus |-> "Title", commits |-> n, git_selected |-> 0,
        status_message |-> IF n = 0 THEN Some(MsgNoCommits) ELSE None,
        new_note_dir |-> None, modal |-> None, fs |-> f, run |-> "running"]

Becomes(r) ==
    /\ sidebar_items' = r.sidebar_items /\ expanded_dirs' = r.expanded_dirs
    /\ selected' = r.selected /\ title' = r.title /\ title_cursor' = r.title_cursor
    /\ lines' = r.lines /\ cursor_row' = r.cursor_row /\ cursor_col' = r.cursor_col
    /\ scroll_y' = r.scroll_y /\ opened_path' = r.opened_path /\ dirty' = r.dirty
    /\ focus' = r.focus /\ last_right_focus' = r.last_right_focus
    /\ commits' = r.commits /\ git_selected' = r.git_selected
    /\ status_message' = r.status_message /\ new_note_dir' = r.new_note_dir
    /\ modal' = r.modal /\ fs' = r.fs /\ run' = r.run

InitWith(f, n) ==
    /\ sidebar_items = App_new(f, n).sidebar_items /\ expanded_dirs = {NotesDir}
    /\ selected = App_new(f, n).selected /\ title = <<>> /\ title_cursor = 0
    /\ lines = << <<>> >> /\ cursor_row = 0 /\ cursor_col = 0 /\ scroll_y = 0
    /\ opened_path = None /\ dirty = FALSE /\ focus = "Sidebar"
    /\ last_right_focus = "Title" /\ commits = n /\ git_selected = 0
    /\ status_message = App_new(f, n).status_message /\ new_note_dir = None
    /\ modal = None /\ fs = f /\ run = "running"

MaxFiles == 3

\* the model follows the program while its texts stay within the bounds
WithinBounds(r) ==
    /\ Len(r.lines) <= MaxLines
    /\ \A i \in 1..Len(r.lines) : Len(r.lines[i]) <= MaxLineLen
    /\ Len(r.title) <= MaxTitleLen
    /\ is_some(r.modal) => Len(unwrap(r.modal).current) <= MaxNameLen
    /\ Cardinality(DOMAIN r.fs.files) <= MaxFiles

\* one turn of event_loop: the key event read is handled to completion
HandleKey(key, io) ==
    /\ run = "running"
    /\ \E r \in {handle_key(App, key, io)} : WithinBounds(r) /\ Becomes(r)

(***************************************************************************)
(* SpecEdit: editing the body.  The user opens notes from the sidebar,     *)
(* asks for new notes, and edits the body while it has the focus.          *)
(***************************************************************************)
BodyKeys ==
    {Key("Left"), Key("Right"), Key("Up"), Key("Down"), Key("Home"), Key("End"),
     Key("Backspace"), Key("Delete"), Key("Enter"), Ch("é")}

EditBody ==
    /\ modal = None /\ focus = "Content"
    /\ \E k \in BodyKeys : HandleKey(k, IoAllOk)

FocusBody == modal = None /\ HandleKey(Ch("3"), IoAllOk)

FocusSidebar == modal = None /\ focus = "Content" /\ HandleKey(Ch("1"), IoAllOk)

BrowseSidebar ==
    /\ modal = None /\ focus = "Sidebar"
    /\ \E k \in {Key("Down"), Key("Enter")} : HandleKey(k, IoAllOk)

\* Enter on a row whose file cannot be read
OpenUnreadable ==
    /\ modal = None /\ focus = "Sidebar"
    /\ HandleKey(Key("Enter"), [IoAllOk EXCEPT !.read = IoErr])

AskNewNote == modal = None /\ HandleKey(Ch("n"), IoAllOk)

AnswerNewNote ==
    /\ is_some(modal)
    /\ \E k \in {Ch("é"), Key("Enter"), Key("Esc")} : HandleKey(k, IoAllOk)

InitEdit == InitWith(Fs0, 0)
NextEdit ==
    \/ EditBody \/ FocusBody \/ FocusSidebar \/ BrowseSidebar \/ OpenUnreadable
    \/ AskNewNote \/ AnswerNewNote
SpecEdit == InitEdit /\ [][NextEdit]_vars

\* C1: in every reachable state the body has at least one line, cursor_row
\* indexes a line and cursor_col lies between 0 and the length (String::len,
\* the unit cursor_col counts in) of that line.
C1_CursorInBounds ==
    /\ Len(lines) >= 1
    /\ 0 <= cursor_row /\ cursor_row < Len(lines)
    /\ 0 <= cursor_col /\ cursor_col <= len(lines[cursor_row + 1])

\* an opened note edited into two lines, the cursor at the end of the second
C1_Witness ==
    /\ is_some(opened_path) /\ dirty /\ focus = "Content"
    /\ Len(lines) = 2 /\ cursor_row = 1
    /\ lines[2] # <<>> /\ cursor_col = len(lines[2])

\* C2: cursor_col is always a character boundary of its line and no edit at
\* the cursor fails.
C2_ColOnCharBoundary ==
    /\ run # "panic"
    /\ is_char_boundary(lines[cursor_row + 1], cursor_col)

(***************************************************************************)
(* SpecModal: the two dialogs.  The user browses the sidebar, asks for a   *)
(* new note or for a delete, answers the dialog with any key, and edits    *)
(* the title.                                                              *)
(***************************************************************************)
ModalIs(kind) == is_some(modal) /\ unwrap(modal).kind = kind

NameKeys ==
    {Ch(" "), Ch("."), Ch("q"), Key("Backspace"), Key("Enter"), Key("Esc"),
     Ctrl("s"), Key("Tab")}

DeleteKeys ==
    {Ch("y"), Shift("Y"), Ch("n"), Shift("N"), Key("Esc"), Ch("q"), Key("Enter"),
     Ctrl("s"), Key("Tab"), Key("Down")}

DeleteOutcomes ==
    {IoAllOk, [IoAllOk EXCEPT !.remove = IoErr], [IoAllOk EXCEPT !.build = IoErr]}

TitleKeys ==
    {Ch("."), Ch("/"), Ch("\\"), Ch("a"), Key("Backspace"), Key("Left")}

TypeName == ModalIs("InputName") /\ \E k \in NameKeys : HandleKey(k, IoAllOk)

AskDelete == modal = None /\ focus = "Sidebar" /\ HandleKey(Ch("d"), IoAllOk)

AnswerDelete ==
    /\ ModalIs("ConfirmDelete")
    /\ \E k \in DeleteKeys, io \in DeleteOutcomes : HandleKey(k, io)

EditTitle ==
    /\ modal = None /\ focus = "Title"
    /\ \E k \in TitleKeys : HandleKey(k, IoAllOk)

InitModal == \E n \in 0..MaxCommits : InitWith(Fs0, n)
NextModal ==
    BrowseSidebar \/ AskNewNote \/ TypeName \/ AskDelete \/ AnswerDelete \/ EditTitle
SpecModal == InitModal /\ [][NextModal]_vars

\* the keys a dialog is probed with
ProbeKeys ==
    NameKeys \cup DeleteKeys \cup TitleKeys \cup
    {Ch("1"), Ch("2"), Ch("3"), Ch("4"), Ch("h"), Ch("l"), Ch("d"), Ch("r"),
     Key("Up"), Key("Right"), Key("Home"), Key("End"), Key("Delete")}

ProbeOutcomes ==
    DeleteOutcomes \cup {[IoAllOk EXCEPT !.write = "err_create"]}

\* C6: in every reachable state the title holds no '/', no '\' and no '.'.
C6_TitleHasNoSeparatorOrDot ==
    \A i \in 1..Len(title) : title[i] \notin {"/", "\\", "."}

\* the key that carries out the dialog's action: confirm or affirm
IsConfirmKey(m, key) ==
    IF m.kind = "InputName" THEN key.code = "Enter"
    ELSE key.code = "Char" /\ key.ch \in {"y", "Y"}

\* C7: while a dialog is open every key is handled by the dialog alone: the
\* event loop keeps running, nothing is saved, and unless the key is the
\* dialog's confirm or affirm key, focus, last_right_focus, the sidebar
\* selection, the expansion set and the history selection stay as they were.
C7_ModalConsumesKeys ==
    is_some(modal) =>
        \A key \in ProbeKeys, io \in ProbeOutcomes :
            LET r == handle_key(App, key, io)
            IN /\ r.run = "running"
               /\ ~IsConfirmKey(unwrap(modal), key) =>
                     /\ r.focus = focus
                     /\ r.last_right_focus = last_right_focus
                     /\ r.selected = selected
                     /\ r.expanded_dirs = expanded_dirs
                     /\ r.git_selected = git_selected
                     /\ r.fs = fs

\* the quit key typed into the name dialog, which is still open
C7_Witness ==
    /\ ModalIs("InputName") /\ run = "running" /\ focus = "Title"
    /\ unwrap(modal).current = <<"q", "q">>

\* C8: Enter in the name dialog on a buffer whose trimmed text is not empty
\* closes the dialog and installs the pending note: the trimmed text as
\* title, one empty line, cursor (0,0), focus and last_right_focus Title, no
\* opened path, dirty, and the dialog's target directory as new_note_dir.
C8_ConfirmInstallsNewNote ==
    (ModalIs("InputName") /\ trim(unwrap(modal).current) # <<>>) =>
        LET r == handle_key(App, Key("Enter"), IoAllOk)
        IN /\ r.modal = None
           /\ r.title = trim(unwrap(modal).current)
           /\ r.lines = << <<>> >>
           /\ r.cursor_row = 0 /\ r.cursor_col = 0
           /\ r.focus = "Title" /\ r.last_right_focus = "Title"
           /\ r.opened_path = None
           /\ r.dirty = TRUE
           /\ r.new_note_dir = Some(unwrap(modal).target_dir)

\* a pending note named q in directory a
C8_Witness ==
    /\ modal = None /\ new_note_dir = Some(DirA) /\ opened_path = None /\ dirty
    /\ focus = "Title" /\ last_right_focus = "Title"
    /\ title = <<"q">> /\ lines = << <<>> >> /\ status_message = Some(MsgNewNote)

\* C9: in the name dialog, Enter on an empty or whitespace-only buffer, and
\* Esc on any buffer, close the dialog and change nothing else.
C9_BlankConfirmAndCancelOnlyClose ==
    ModalIs("InputName") =>
        /\ handle_key(App, Key("Esc"), IoAllOk) = [App EXCEPT !.modal = None]
        /\ trim(unwrap(modal).current) = <<>> =>
              handle_key(App, Key("Enter"), IoAllOk) = [App EXCEPT !.modal = None]

\* the name dialog holding only white space, opened over an edited title
C9_Witness ==
    /\ ModalIs("InputName") /\ unwrap(modal).current = <<" ", " ">>
    /\ title # <<>> /\ dirty

\* C10: in the delete dialog, n, N and Esc close the dialog and change
\* nothing else; every key other than those and y, Y changes nothing at all.
C10_DeclineAndOtherKeys ==
    ModalIs("ConfirmDelete") =>
        \A key \in ProbeKeys, io \in ProbeOutcomes :
            LET r == handle_key(App, key, io)
                affirm == key.code = "Char" /\ key.ch \in {"y", "Y"}
                decline == key.code = "Esc" \/ (key.code = "Char" /\ key.ch \in {"n", "N"})
            IN /\ decline => r = [App EXCEPT !.modal = None]
               /\ (~affirm /\ ~decline) => r = App

\* the delete dialog open on the note b.md while that note is being edited
C10_Witness ==
    /\ ModalIs("ConfirmDelete") /\ unwrap(modal).path = FileB
    /\ opened_path = Some(FileB) /\ dirty /\ FileB \in DOMAIN fs.files

(***************************************************************************)
(* SpecSave: saving.  The user opens a note or asks for a new one, edits   *)
(* the title and the body, and saves; the file system may fail each call.  *)
(***************************************************************************)
SaveOutcomes ==
    {IoAllOk,
     [IoAllOk EXCEPT !.write = "err_mkdir"],
     [IoAllOk EXCEPT !.write = "err_create"],
     [IoAllOk EXCEPT !.write = "err_write"],
     [IoAllOk EXCEPT !.rename = IoErr],
     [IoAllOk EXCEPT !.build = IoErr]}

TypeBody ==
    /\ modal = None /\ focus = "Content"
    /\ \E k \in {Key("Delete")} : HandleKey(k, IoAllOk)

Retitle ==
    /\ modal = None /\ focus = "Title"
    /\ \E k \in {Ch("c"), Key("Backspace")} : HandleKey(k, IoAllOk)

NameNote ==
    /\ ModalIs("InputName")
    /\ \E k \in {Ch("c"), Key("Enter")} : HandleKey(k, IoAllOk)

Save == modal = None /\ \E io \in SaveOutcomes : HandleKey(Ctrl("s"), io)

InitSave == InitWith(Fs0, 0)
NextSave ==
    \/ BrowseSidebar \/ Retitle \/ FocusBody \/ TypeBody
    \/ AskNewNote \/ NameNote \/ Save
SpecSave == InitSave /\ [][NextSave]_vars

\* the save key is handled with outcome io and the note file gets written
Saved(io) ==
    /\ modal = None /\ trim(title) # <<>>
    /\ write_note(fs, save_target(App), join_lines(lines), io.write).ok
    /\ HandleKey(Ctrl("s"), io)

\* the save key is handled with outcome io and writing the note file fails
SaveFailed(io) ==
    /\ modal = None /\ trim(title) # <<>>
    /\ ~write_note(fs, save_target(App), join_lines(lines), io.write).ok
    /\ HandleKey(Ctrl("s"), io)

TitleChanged ==
    is_some(opened_path) /\ file_stem(unwrap(opened_path)) # Some(trim(title))

\* C3: saving an opened note whose title was changed leaves the note under
\* the new title, <title>.md, holding the text of the buffer; when the rename
\* of the old file succeeds the old file is gone.
C3_SaveUnderNewTitle ==
    [][\A io \in SaveOutcomes :
          (TitleChanged /\ Saved(io)) =>
             LET old == unwrap(opened_path)
                 new == unwrap(opened_path')
             IN /\ file_name(new) = Some(trim(title) \o MdExt)
                /\ new \in DOMAIN fs'.files
                /\ fs'.files[new] = join_lines(lines)
                /\ (io.rename = IoOk /\ new # old) => old \notin DOMAIN fs'.files]_vars

\* C4: when writing the note file fails the event loop keeps running, a
\* status message is set, and opened_path, dirty, new_note_dir, the buffer
\* and the sidebar stay as they were.
C4_WriteFailureIsNotFatal ==
    [][\A io \in SaveOutcomes :
          SaveFailed(io) =>
             /\ run' = "running"
             /\ is_some(status_message')
             /\ UNCHANGED <<opened_path, dirty, new_note_dir, lines, cursor_row,
                            cursor_col, sidebar_items, selected>>]_vars

\* C5: saving an opened note whose title is unchanged writes the buffer to
\* the path the note was opened from and leaves opened_path as it was.
C5_SaveInPlace ==
    [][\A io \in SaveOutcomes :
          (is_some(opened_path) /\ ~TitleChanged /\ Saved(io)) =>
             /\ opened_path' = opened_path
             /\ unwrap(opened_path) \in DOMAIN fs'.files
             /\ fs'.files[unwrap(opened_path)] = join_lines(lines)]_vars

(***************************************************************************)
(* SpecNav: moving the focus.  The user cycles with Tab, jumps with the    *)
(* digits, goes left and right with h, l and the arrows, opens notes from  *)
(* the sidebar and asks for new notes.                                     *)
(***************************************************************************)
CycleFocus == modal = None /\ HandleKey(Key("Tab"), IoAllOk)

QuickSelect ==
    /\ modal = None
    /\ \E c \in {"1", "2", "3", "4"} : HandleKey(Ch(c), IoAllOk)

GoLeftRight ==
    /\ modal = None
    /\ \E k \in {Ch("h"), Ch("l"), Key("Left"), Key("Right")} : HandleKey(k, IoAllOk)

InitNav == \E n \in 0..MaxCommits : InitWith(Fs0, n)
NextNav ==
    \/ CycleFocus \/ QuickSelect \/ GoLeftRight \/ BrowseSidebar
    \/ AskNewNote \/ NameNote
SpecNav == InitNav /\ [][NextNav]_vars

\* C11: a key event that moves the focus to Title or to Content leaves
\* last_right_focus equal to the new focus, and one that moves the focus to
\* Sidebar or to Commits leaves last_right_focus as it was.
C11_EnteringUpdatesRightFocus ==
    [][/\ (focus' # focus /\ focus' \in {"Title", "Content"}) =>
              last_right_focus' = focus'
       /\ (focus' # focus /\ focus' \in {"Sidebar", "Commits"}) =>
              last_right_focus' = last_right_focus]_vars

\* the order of the cycle key
NextInCycle(f) ==
    CASE f = "Sidebar" -> "Title" [] f = "Title" -> "Content"
      [] f = "Content" -> "Commits" [] f = "Commits" -> "Sidebar"

\* C12: with no dialog open, Tab moves the focus to the next surface of
\* Sidebar, Title, Content, Commits, Sidebar; last_right_focus becomes the
\* new focus when that is Title or Content and is unchanged otherwise; four
\* presses bring the focus back.
C12_CycleKey ==
    modal = None =>
        LET r1 == handle_key(App, Key("Tab"), IoAllOk)
            r2 == handle_key(r1, Key("Tab"), IoAllOk)
            r3 == handle_key(r2, Key("Tab"), IoAllOk)
            r4 == handle_key(r3, Key("Tab"), IoAllOk)
        IN /\ r1.focus = NextInCycle(focus)
           /\ r1.last_right_focus =
                 IF r1.focus \in {"Title", "Content"} THEN r1.focus
                 ELSE last_right_focus
           /\ r1.modal = None /\ r2.modal = None /\ r3.modal = None
           /\ r4.focus = focus

\* Tab pressed three times from the sidebar
C12_Witness ==
    /\ modal = None /\ focus = "Commits" /\ last_right_focus = "Content"
    /\ opened_path = None /\ title = <<>> /\ ~dirty

\* C13: with no dialog open and the focus on Sidebar or Commits, l sets the
\* focus to the surface last_right_focus records, and so does the Right arrow
\* from Commits.
C13_GoRight ==
    (modal = None /\ focus \in {"Sidebar", "Commits"}) =>
        /\ handle_key(App, Ch("l"), IoAllOk).focus = RightFocus_into(last_right_focus)
        /\ focus = "Commits" =>
              handle_key(App, Key("Right"), IoAllOk).focus
                  = RightFocus_into(last_right_focus)

\* l pressed outside the body brought the focus back to the body
C13_Witness ==
    /\ modal = None /\ focus = "Content" /\ last_right_focus = "Content"
    /\ is_some(opened_path) /\ \E i \in 1..Len(lines) : lines[i] = <<"b", "l">>

\* C14: with no dialog open and the focus on Title, Content or Commits, h
\* sets the focus to Sidebar, and so does the Left arrow from Title and from
\* Commits.
C14_GoLeft ==
    (modal = None /\ focus \in {"Title", "Content", "Commits"}) =>
        /\ handle_key(App, Ch("h"), IoAllOk).focus = "Sidebar"
        /\ focus \in {"Title", "Commits"} =>
              handle_key(App, Key("Left"), IoAllOk).focus = "Sidebar"

\* back on the sidebar with a note open whose body had the focus
C14_Witness ==
    /\ modal = None /\ focus = "Sidebar" /\ last_right_focus = "Content"
    /\ is_some(opened_path)

\* the focus a digit names
QuickTarget(c) ==
    CASE c = "1" -> "Sidebar" [] c = "2" -> "Title"
      [] c = "3" -> "Content" [] c = "4" -> "Commits"

\* C15: with no dialog open, each digit 1..4 sets the focus to the surface it
\* names, whatever the focus was, and changes neither the title nor the body.
C15_QuickSelect ==
    modal = None =>
        \A c \in {"1", "2", "3", "4"} :
            LET r == handle_key(App, Ch(c), IoAllOk)
            IN /\ r.focus = QuickTarget(c)
               /\ r.title = title /\ r.title_cursor = title_cursor
               /\ r.lines = lines
               /\ r.cursor_row = cursor_row /\ r.cursor_col = cursor_col

\* the history reached from the body of an opened note
C15_Witness ==
    /\ modal = None /\ focus = "Commits" /\ is_some(opened_path)
    /\ last_right_focus = "Content" /\ cursor_col > 0

(***************************************************************************)
(* SpecText: loading and storing texts.  The note b.md holds any text of   *)
(* up to MaxTextLen characters; the user opens notes from the sidebar and  *)
(* saves them, without editing.                                            *)
(***************************************************************************)
MaxTextLen == 4

TextChars == {"a", "\n"}

Texts == UNION {[1..n -> TextChars] : n \in 0..MaxTextLen}

FsText(s) == [Fs0 EXCEPT !.files[FileB] = s]

\* one turn of event_loop on a buffer of any size
HandleKeyAnySize(key, io) ==
    /\ run = "running"
    /\ \E r \in {handle_key(App, key, io)} : Becomes(r)

LoadText ==
    /\ modal = None /\ focus = "Sidebar"
    /\ \E k \in {Key("Down"), Key("Enter")} : HandleKeyAnySize(k, IoAllOk)

BackToSidebar == modal = None /\ focus # "Sidebar" /\ HandleKeyAnySize(Ch("1"), IoAllOk)

StoreText == modal = None /\ HandleKeyAnySize(Ctrl("s"), IoAllOk)

InitText == \E s \in Texts : InitWith(FsText(s), 0)
NextText == LoadText \/ BackToSidebar \/ StoreText
SpecText == InitText /\ [][NextText]_vars

ends_with_newline(s) == s # <<>> /\ s[Len(s)] = "\n"

\* the sidebar has the focus and its selected row is a note
NoteSelected ==
    /\ modal = None /\ focus = "Sidebar" /\ is_some(selected)
    /\ unwrap(selected) < Len(sidebar_items)
    /\ ~sidebar_items[unwrap(selected) + 1].is_dir
    /\ sidebar_items[unwrap(selected) + 1].path \in DOMAIN fs.files

SelectedText == fs.files[sidebar_items[unwrap(selected) + 1].path]

\* C16: a text that does not end in a newline, loaded into the buffer by
\* opening its note and converted back, is the same text, and a save right
\* after the load writes that text.
C16_RoundTrip ==
    (NoteSelected /\ ~ends_with_newline(SelectedText)) =>
        LET r == handle_key(App, Key("Enter"), IoAllOk)
            w == handle_key(r, Ctrl("s"), IoAllOk)
        IN /\ r.lines = split_lines_preserve(SelectedText)
           /\ join_lines(r.lines) = SelectedText
           /\ w.fs.files[save_target(r)] = SelectedText

\* the text a, empty line, a loaded from b.md
C16_Witness ==
    /\ opened_path = Some(FileB) /\ ~dirty /\ fs.files[FileB] = <<"a", "\n", "\n", "a">>
    /\ lines = << <<"a">>, <<>>, <<"a">> >>

\* C17: a text that ends in exactly one newline loads into one line per
\* newline, with no empty line after the last, and converts back to the text
\* without its final newline.
C17_OneTrailingNewline ==
    LET s == SelectedText
        body == SubSeq(s, 1, Len(s) - 1)
    IN (NoteSelected /\ ends_with_newline(s) /\ ~ends_with_newline(body)) =>
          LET r == handle_key(App, Key("Enter"), IoAllOk)
              w == handle_key(r, Ctrl("s"), IoAllOk)
          IN /\ r.lines = split_lines_preserve(s)
             /\ Len(r.lines) = Cardinality({i \in 1..Len(s) : s[i] = "\n"})
             /\ join_lines(r.lines) = body
             /\ w.fs.files[save_target(r)] = body

\* the text a, newline, a, newline loaded from b.md
C17_Witness ==
    /\ opened_path = Some(FileB) /\ ~dirty /\ fs.files[FileB] = <<"a", "\n", "a", "\n">>
    /\ lines = << <<"a">>, <<"a">> >>

(***************************************************************************)
(* Joining and splitting lines, checked in the states of SpecEdit.         *)
(***************************************************************************)
Editing == modal = None /\ focus = "Content" /\ run = "running"

\* C18: with the cursor (r,c) on a character boundary of its line, Enter
\* followed by Backspace restores the lines and the cursor (r,c); in between
\* there is one line more and the cursor is at (r+1, 0).
C18_SplitThenBackspace ==
    (Editing /\ is_char_boundary(lines[cursor_row + 1], cursor_col)) =>
        LET r1 == handle_key(App, Key("Enter"), IoAllOk)
            r2 == handle_key(r1, Key("Backspace"), IoAllOk)
        IN /\ r1.run = "running" /\ r2.run = "running"
           /\ Len(r1.lines) = Len(lines) + 1
           /\ r1.cursor_row = cursor_row + 1 /\ r1.cursor_col = 0
           /\ r2.lines = lines
           /\ r2.cursor_row = cursor_row /\ r2.cursor_col = cursor_col

\* the note b.md split after its only character, before the Backspace
C18_Witness ==
    /\ Editing /\ opened_path = Some(FileB) /\ fs.files[FileB] = <<"b">>
    /\ lines = << <<"b">>, <<>> >> /\ cursor_row = 1 /\ cursor_col = 0

\* C19: Backspace at column 0 of a line that is not the first removes one
\* line, puts the concatenation of the previous line and this one in their
\* place and the cursor at the former end of the previous line; Delete at the
\* end of a line that is not the last removes one line, puts the
\* concatenation of this line and the next in their place and leaves the
\* cursor where it was.
C19_JoinAtBoundaries ==
    Editing =>
        LET n == Len(lines)
            row == cursor_row + 1
            back == handle_key(App, Key("Backspace"), IoAllOk)
            del == handle_key(App, Key("Delete"), IoAllOk)
        IN /\ (cursor_row > 0 /\ cursor_col = 0) =>
                 /\ Len(back.lines) = n - 1
                 /\ back.lines = SubSeq(lines, 1, row - 2)
                                   \o << lines[row - 1] \o lines[row] >>
                                   \o SubSeq(lines, row + 1, n)
                 /\ back.cursor_row = cursor_row - 1
                 /\ back.cursor_col = len(lines[row - 1])
           /\ (cursor_col = len(lines[row]) /\ cursor_row + 1 < n) =>
                 /\ Len(del.lines) = n - 1
                 /\ del.lines = SubSeq(lines, 1, row - 1)
                                  \o << lines[row] \o lines[row + 1] >>
                                  \o SubSeq(lines, row + 2, n)
                 /\ del.cursor_row = cursor_row
                 /\ del.cursor_col = cursor_col

\* the two lines of the note x.md joined into one, the cursor at the seam
C19_Witness ==
    /\ Editing /\ opened_path = Some(FileX) /\ dirty
    /\ lines = << <<"a", "é">> >> /\ cursor_row = 0 /\ cursor_col = 1

(***************************************************************************)
(* SpecTree: the sidebar over a tree of notes.  The notes directory holds  *)
(* a chain of nested directories, each with or without a note, and maybe a *)
(* second directory; the user walks the sidebar, expands and collapses     *)
(* directories and opens notes.                                            *)
(***************************************************************************)
MaxTreeDepth == 2

\* the directory k levels below the notes directory
DirAt(k) == NotesDir \o [i \in 1..k |-> <<"a">>]

NoteAt(k) == DirAt(k) \o << <<"x">> \o MdExt >>

\* a directory and a note with upper-case names, beside a and x.md
DirB == NotesDir \o << <<"B">> >>
FileY == NotesDir \o << <<"Y">> \o MdExt >>

\* the tree with the chain down to level k, notes at the levels of noted,
\* and the directory B and the note Y.md when side
FsTree(k, noted, side) ==
    [files |-> [p \in {NoteAt(j) : j \in noted} \cup (IF side THEN {FileY} ELSE {})
                  |-> <<"a">>],
     dirs |-> {<<>>} \cup {DirAt(j) : j \in 0..k} \cup (IF side THEN {DirB} ELSE {})]

WalkSidebar ==
    /\ modal = None /\ focus = "Sidebar"
    /\ \E k \in {Key("Up"), Key("Down"), Key("Enter"), Ch(" "), Key("Right")} :
          HandleKey(k, IoAllOk)

InitTree ==
    \E k \in 0..MaxTreeDepth, noted \in SUBSET (0..MaxTreeDepth), side \in BOOLEAN :
        /\ noted \subseteq 0..k
        /\ Cardinality(noted) + (IF side THEN 1 ELSE 0) <= MaxFiles
        /\ InitWith(FsTree(k, noted, side), 0)
NextTree == WalkSidebar \/ BackToSidebar
SpecTree == InitTree /\ [][NextTree]_vars

\* every row carries one last_ancestors flag per level of depth, and its
\* depth is the number of directories between the notes directory and it
RowsWellFormed(rows) ==
    \A i \in 1..Len(rows) :
        /\ Len(rows[i].last_ancestors) = rows[i].depth
        /\ rows[i].depth = Len(rows[i].path) - Len(NotesDir) - 1

\* C20: for the tree on disk and every expansion set, and for the rows the
\* sidebar shows, each flattened row has last_ancestors of length depth, and
\* depth counts the row's ancestor directories below the root.
C20_AncestorsMatchDepth ==
    /\ RowsWellFormed(sidebar_items)
    /\ \A E \in SUBSET fs.dirs :
          RowsWellFormed(flatten_tree_for_sidebar(build_notes_tree(fs, NotesDir), E))

\* a note two directories down is shown in the sidebar
C20_Witness ==
    \E i \in 1..Len(sidebar_items) :
        /\ ~sidebar_items[i].is_dir /\ sidebar_items[i].depth = 2
        /\ Len(sidebar_items[i].last_ancestors) = 2

\* the paths of the rows shown as expanded directories
ExpandedRows(rows) ==
    {rows[i].path : i \in {j \in 1..Len(rows) : rows[j].is_dir /\ rows[j].expanded}}

\* the paths of the nodes of the tree below its root
TreePaths ==
    {p \in fs.dirs \cup DOMAIN fs.files :
        /\ Len(p) > Len(NotesDir) /\ SubSeq(p, 1, Len(NotesDir)) = NotesDir
        /\ \A k \in (Len(NotesDir) + 1)..Len(p) : ~starts_with_dot(p[k])}

\* the directories of the tree all of whose ancestors below the root are in
\* the expansion set
VisibleDirs ==
    {p \in TreePaths \cap fs.dirs :
        \A k \in (Len(NotesDir) + 1)..(Len(p) - 1) : SubSeq(p, 1, k) \in expanded_dirs}

\* C21 as stated: the paths of the rows that are expanded directories are
\* exactly the expansion set intersected with the paths of the tree (the
\* root, which is never a row, left aside).
C21_ExpandedRowsAreExpansionInTree ==
    ExpandedRows(sidebar_items) = expanded_dirs \cap TreePaths

\* C21 amended: the paths of the rows that are expanded directories are
\* exactly the expansion set intersected with the directories whose ancestors
\* below the root are all expanded; an expanded directory inside a collapsed
\* one stays in the expansion set and has no row.
C21_ExpandedRowsAreVisibleExpansion ==
    /\ ExpandedRows(sidebar_items) = expanded_dirs \cap VisibleDirs
    /\ \A i \in 1..Len(sidebar_items) :
          sidebar_items[i].expanded =
              (sidebar_items[i].is_dir /\ sidebar_items[i].path \in expanded_dirs)

\* the directory a collapsed while a/a inside it is still in the expansion set
C21_Witness ==
    /\ DirAt(2) \in expanded_dirs /\ DirAt(1) \notin expanded_dirs
    /\ DirAt(2) \in fs.dirs /\ focus = "Sidebar"

\* the keys that toggle the selected directory row
ToggleKeys == {Ch(" "), Key("Enter"), Key("Right")}

\* the selected row is a directory and the sidebar takes the keys
DirRowSelected ==
    /\ run = "running" /\ modal = None /\ focus = "Sidebar"
    /\ is_some(selected) /\ selected[1] < Len(sidebar_items)
    /\ sidebar_items[selected[1] + 1].is_dir

\* C22: with the file system unchanged, toggling the selected directory row
\* changes the expansion set by exactly that directory, and toggling it again
\* restores the prior rows, the prior expansion set and the prior selected
\* index, the expansion of the directories nested inside it included.
C22_DoubleToggleRestores ==
    DirRowSelected =>
        \A k1 \in ToggleKeys, k2 \in ToggleKeys :
            LET d == sidebar_items[selected[1] + 1].path
                r1 == handle_key(App, k1, IoAllOk)
                r2 == handle_key(r1, k2, IoAllOk)
            IN /\ r1.expanded_dirs # expanded_dirs
               /\ (r1.expanded_dirs \ {d}) = (expanded_dirs \ {d})
               /\ r1.selected = selected /\ r1.fs = fs
               /\ r2.sidebar_items = sidebar_items
               /\ r2.expanded_dirs = expanded_dirs
               /\ r2.selected = selected

\* the selected row is the expanded directory a, and a/a inside it is
\* expanded too and holds something
C22_Witness ==
    /\ DirRowSelected /\ sidebar_items[selected[1] + 1].path = DirAt(1)
    /\ {DirAt(1), DirAt(2)} \subseteq expanded_dirs
    /\ \E i \in 1..Len(sidebar_items) : sidebar_items[i].depth = 2

\* the tree of the scenario: directory a holding x.md, and b.md beside it
ScenarioTree ==
    /\ fs.dirs = {<<>>, NotesDir, DirA}
    /\ DOMAIN fs.files = {FileX, FileB}

\* the rows of the scenario were built with a, and only a, expanded
ScenarioShown ==
    /\ ScenarioTree /\ expanded_dirs = {NotesDir, DirA}
    /\ sidebar_items = flatten_tree_for_sidebar(build_notes_tree(fs, NotesDir), expanded_dirs)

\* C23: for the root holding directory a (expanded) with x.md in it and b.md
\* beside it, flattening yields three rows: directory "a" at depth 0, not
\* last; file "x" at depth 1, last, last_ancestors [false]; file "b" at
\* depth 0, last.
C23_ScenarioRows ==
    ScenarioShown =>
        LET rows == sidebar_items
        IN /\ Len(rows) = 3
           /\ rows[1].is_dir /\ rows[1].name = <<"a">> /\ rows[1].depth = 0
           /\ ~rows[1].last_in_parent
           /\ ~rows[2].is_dir /\ rows[2].name = <<"x">> /\ rows[2].depth = 1
           /\ rows[2].last_in_parent /\ rows[2].last_ancestors = <<FALSE>>
           /\ ~rows[3].is_dir /\ rows[3].name = <<"b">> /\ rows[3].depth = 0
           /\ rows[3].last_in_parent

\* the node of the tree whose path is p
RECURSIVE NodeAtPath(_, _)
NodeAtPath(node, p) ==
    IF node.path = p THEN node
    ELSE LET c == CHOOSE i \in 1..Len(node.children) :
                      node.children[i].path = SubSeq(p, 1, Len(node.path) + 1)
         IN NodeAtPath(node.children[c], p)

\* the position of the node with path p among the children of its parent
ChildPos(root, p) ==
    LET up == NodeAtPath(root, SubSeq(p, 1, Len(p) - 1))
    IN CHOOSE i \in 1..Len(up.children) : up.children[i].path = p

IsProperPrefix(p, q) == Len(p) < Len(q) /\ SubSeq(q, 1, Len(p)) = p

\* depth-first pre-order on the paths of a tree: an ancestor comes before its
\* descendants, and otherwise the order is that of the two siblings at which
\* the paths part
PreOrderBefore(root, p, q) ==
    \/ IsProperPrefix(p, q)
    \/ /\ ~IsProperPrefix(q, p) /\ p # q
       /\ LET k == CHOOSE i \in 1..Len(p) :
                      /\ p[i] # q[i]
                      /\ \A j \in 1..(i - 1) : p[j] = q[j]
          IN ChildPos(root, SubSeq(p, 1, k)) < ChildPos(root, SubSeq(q, 1, k))

\* the nodes below the root all of whose ancestors below the root are in E
VisibleNodes(E) ==
    {p \in TreePaths :
        \A k \in (Len(NotesDir) + 1)..(Len(p) - 1) : SubSeq(p, 1, k) \in E}

\* rows lists exactly the visible nodes, each once, in depth-first pre-order
IsPreOrderListing(root, E, rows) ==
    /\ {rows[i].path : i \in 1..Len(rows)} = VisibleNodes(E)
    /\ Len(rows) = Cardinality(VisibleNodes(E))
    /\ \A i \in 1..Len(rows) : rows[i].path # NotesDir
    /\ \A i \in 1..Len(rows) :
          /\ rows[i].is_dir = (rows[i].path \in fs.dirs)
          /\ (rows[i].is_dir /\ rows[i].path \notin E) =>
                 \A j \in 1..Len(rows) : ~IsProperPrefix(rows[i].path, rows[j].path)
    /\ \A i \in 1..Len(rows), j \in 1..Len(rows) :
          i < j => PreOrderBefore(root, rows[i].path, rows[j].path)

\* C24: for every tree and every expansion set, the flattened sequence is the
\* depth-first pre-order listing of the nodes below the root whose ancestors
\* below the root are all expanded: the root is never a row, a collapsed
\* directory has its own row and none for its descendants, an expanded
\* directory's row is followed by its visible descendants before its next
\* sibling; the rows of the sidebar are that listing for the expansion set.
C24_FlattenIsPreOrder ==
    LET root == build_notes_tree(fs, NotesDir)
    IN /\ \A E \in SUBSET fs.dirs :
             IsPreOrderListing(root, E, flatten_tree_for_sidebar(root, E))
       /\ IsPreOrderListing(root, expanded_dirs, sidebar_items)

\* a is expanded and shows a collapsed a/a that holds a note, its own note,
\* and is followed by its sibling B
C24_Witness ==
    /\ DirB \in fs.dirs /\ NoteAt(2) \in DOMAIN fs.files /\ NoteAt(1) \in DOMAIN fs.files
    /\ DirAt(1) \in expanded_dirs /\ DirAt(2) \notin expanded_dirs
    /\ Len(sidebar_items) >= 4
    /\ sidebar_items[2].path = DirAt(2) /\ sidebar_items[3].path = NoteAt(1)

\* the children of one directory: directories first, and each group in
\* non-decreasing order of the lower-cased names
ChildrenSorted(children) ==
    \A i \in 1..Len(children), j \in 1..Len(children) :
        i < j =>
            /\ children[i].is_dir \/ ~children[j].is_dir
            /\ children[i].is_dir = children[j].is_dir =>
                   ~str_lt(to_lowercase(children[j].name), to_lowercase(children[i].name))

\* C25: in the built tree, at every level all directory children precede all
\* file children, and within each group the children are in non-decreasing
\* order of their lower-cased names; every entry of a directory that is not
\* hidden is one of its children.
C25_ChildrenSortedAtEveryLevel ==
    LET root == build_notes_tree(fs, NotesDir)
    IN \A d \in {q \in fs.dirs : q = NotesDir \/ q \in TreePaths} :
          LET children == NodeAtPath(root, d).children
          IN /\ ChildrenSorted(children)
             /\ {children[i].path : i \in 1..Len(children)} =
                    {q \in TreePaths \cup {NotesDir} : IsProperPrefix(d, q) /\ Len(q) = Len(d) + 1}
             /\ Len(children) = Cardinality({children[i].path : i \in 1..Len(children)})

\* the notes directory holds a and B, x.md and Y.md, where the order of the
\* names as they are differs from the order of the lower-cased names; the
\* tree was built again when a was expanded
C25_Witness ==
    /\ {DirAt(1), DirB} \subseteq fs.dirs /\ {NoteAt(0), FileY} \subseteq DOMAIN fs.files
    /\ str_lt(<<"B">>, <<"a">>) /\ str_lt(<<"Y">> \o MdExt, <<"x">> \o MdExt)
    /\ \E i \in 1..Len(sidebar_items), j \in 1..Len(sidebar_items) :
          /\ i < j /\ sidebar_items[i].path = DirAt(1) /\ sidebar_items[j].path = DirB
    /\ \E i \in 1..Len(sidebar_items), j \in 1..Len(sidebar_items) :
          /\ i < j /\ sidebar_items[i].path = NoteAt(0) /\ sidebar_items[j].path = FileY
    /\ DirAt(1) \in expanded_dirs

(***************************************************************************)
(* SpecExpand: the expansion set.  The user walks the sidebar, toggles     *)
(* directories, opens notes, deletes them, asks for new ones and saves     *)
(* them; the rebuild after a delete may fail.                              *)
(***************************************************************************)
\* the delete dialog is affirmed or declined; the rebuild may fail
DecideDelete ==
    /\ ModalIs("ConfirmDelete")
    /\ \E k \in {Ch("y"), Ch("n")}, io \in {IoAllOk, [IoAllOk EXCEPT !.build = IoErr]} :
          HandleKey(k, io)

\* a note is asked for while the sidebar has the focus
AskNoteInSidebar == modal = None /\ focus = "Sidebar" /\ HandleKey(Ch("n"), IoAllOk)

SaveNote == modal = None /\ new_note_dir # None /\ HandleKey(Ctrl("s"), IoAllOk)

InitExpand == InitWith(Fs0, 0)
NextExpand ==
    \/ WalkSidebar \/ BackToSidebar \/ AskDelete \/ DecideDelete
    \/ AskNoteInSidebar \/ NameNote \/ SaveNote
SpecExpand == InitExpand /\ [][NextExpand]_vars

\* the keys that toggle, open, save, affirm a delete and ask for a note
ExpansionProbeKeys == ToggleKeys \cup {Ctrl("s"), Ch("y"), Ch("n")}

\* C26: the root is in the expansion set in every reachable state, and no
\* key (toggle, open, save, delete, new note) removes it; a key changes the
\* expansion set only when it toggles the selected directory row, and then
\* by that directory alone, so the other expanded paths stay in the set
\* across every rebuild of the sidebar, failed ones included.
C26_RootStaysExpanded ==
    /\ NotesDir \in expanded_dirs
    /\ run = "running" =>
       \A key \in ExpansionProbeKeys, io \in ProbeOutcomes :
          LET r == handle_key(App, key, io)
          IN /\ NotesDir \in r.expanded_dirs
             /\ IF DirRowSelected /\ key \in ToggleKeys
                THEN LET d == sidebar_items[selected[1] + 1].path
                     IN r.expanded_dirs =
                            IF d \in expanded_dirs THEN expanded_dirs \ {d}
                            ELSE expanded_dirs \cup {d}
                ELSE r.expanded_dirs = expanded_dirs

\* the directory a is still expanded after the note in it was deleted and
\* the sidebar rebuilt
C26_Witness ==
    /\ DirA \in expanded_dirs /\ NotesDir \in expanded_dirs
    /\ status_message = Some(MsgDeleted) /\ FileX \notin DOMAIN fs.files
    /\ \E i \in 1..Len(sidebar_items) : sidebar_items[i].path = DirA /\ sidebar_items[i].expanded

\* the selection names a row of rows, or nothing when there is none
SelectionValid(rows, sel) ==
    IF rows = <<>> THEN sel = None ELSE is_some(sel) /\ sel[1] < Len(rows)

\* C29: affirming the delete dialog closes it and sets a status message;
\* when the delete succeeds the sidebar is rebuilt, the deleted path is no
\* row any more and the selection is clamped to a row of the new sidebar
\* (none when the sidebar is empty); when the delete fails the rows and the
\* selection are as they were.
C29_AffirmDelete ==
    ModalIs("ConfirmDelete") =>
        \A key \in {Ch("y"), Shift("Y")}, io \in ProbeOutcomes :
            LET m == unwrap(modal)
                r == handle_key(App, key, io)
                succeeded == m.path \in DOMAIN fs.files /\ io.remove = IoOk
            IN /\ r.modal = None /\ r.run = "running"
               /\ IF succeeded
                  THEN /\ r.status_message = Some(MsgDeleted)
                       /\ m.path \notin DOMAIN r.fs.files
                       /\ r.sidebar_items =
                              (IF io.build = IoOk
                               THEN flatten_tree_for_sidebar(
                                        build_notes_tree(r.fs, NotesDir), expanded_dirs)
                               ELSE <<>>)
                       /\ \A i \in 1..Len(r.sidebar_items) : r.sidebar_items[i].path # m.path
                       /\ SelectionValid(r.sidebar_items, r.selected)
                       /\ r.sidebar_items # <<>> =>
                              r.selected[1] = Min(unwrap_or(selected, 0), Len(r.sidebar_items) - 1)
                  ELSE /\ r.status_message = Some(MsgDeleteFailed)
                       /\ r.fs = fs
                       /\ r.sidebar_items = sidebar_items
                       /\ r.selected = selected

\* the last row b.md was deleted and the selection moved up to the row that
\* is now last
C29_Witness ==
    /\ modal = None /\ status_message = Some(MsgDeleted)
    /\ FileB \notin DOMAIN fs.files /\ FileX \in DOMAIN fs.files
    /\ sidebar_items # <<>> /\ selected = Some(Len(sidebar_items) - 1)
    /\ \A i \in 1..Len(sidebar_items) : sidebar_items[i].path # FileB

\* the status message is one that reports a failure: it is set, and it is
\* none of the messages of start-up, fetch, delete and new note
ReportsFailure(msg) ==
    /\ is_some(msg)
    /\ msg[1] \notin {MsgNoCommits, MsgFetched, MsgDeleted, MsgNewNote}

BuildFails == [IoAllOk EXCEPT !.build = IoErr]

\* C27: when the rebuild of the tree fails during the refresh after a
\* toggle, a save or a delete, the application keeps running, the sidebar
\* becomes empty with no selected row, and a status message reporting the
\* failure is set.
C27_RebuildFailureReported ==
    (run = "running" /\ sidebar_items # <<>>) =>
        \A key \in ExpansionProbeKeys :
            LET r == handle_key(App, key, BuildFails)
            IN r.sidebar_items = <<>> =>
                  /\ r.run = "running" /\ r.selected = None
                  /\ ReportsFailure(r.status_message)

ReadFails == [IoAllOk EXCEPT !.read = IoErr]

\* C28: when the selected note cannot be read, opening it is aborted:
\* title, body lines, cursor, opened_path and dirty keep their values and a
\* status message reporting the failure is set, so that a save right after
\* leaves the unreadable file and its text as they are (unless the note
\* being edited is that file).
C28_UnreadableOpenAborts ==
    (run = "running" /\ NoteSelected) =>
        LET r == handle_key(App, Key("Enter"), ReadFails)
            w == handle_key(r, Ctrl("s"), IoAllOk)
        IN /\ r.title = title /\ r.lines = lines
           /\ r.cursor_row = cursor_row /\ r.cursor_col = cursor_col
           /\ r.opened_path = opened_path /\ r.dirty = dirty
           /\ ReportsFailure(r.status_message)
           /\ LET sel == sidebar_items[unwrap(selected) + 1].path
              IN (opened_path # Some(sel) /\ save_target(App) # sel) =>
                     (sel \in DOMAIN w.fs.files /\ w.fs.files[sel] = SelectedText)

\* the directory the selected row stands for: the row itself when it is a
\* directory, its parent when it is a file, the notes directory when no row
\* is selected
SelectedRowDir ==
    IF is_some(selected) /\ unwrap(selected) < Len(sidebar_items)
    THEN LET it == sidebar_items[unwrap(selected) + 1]
         IN IF it.is_dir THEN it.path ELSE unwrap_or(parent(it.path), NotesDir)
    ELSE NotesDir

\* C30: whatever the focus, a new-note request opens the name dialog with an
\* empty buffer and the directory of the selected row as target (the notes
\* directory when no row is selected); a delete request opens the delete
\* dialog only when the selected row is a file, and then with its path.
C30_RequestsOpenDialogs ==
    (run = "running" /\ modal = None) =>
        /\ handle_key(App, Ch("n"), IoAllOk) =
               [App EXCEPT !.modal = Some(ModalInputName(<<>>, SelectedRowDir))]
        /\ focus = "Sidebar" =>
               handle_key(App, Ch("d"), IoAllOk) =
                   IF is_some(selected) /\ unwrap(selected) < Len(sidebar_items)
                      /\ ~sidebar_items[unwrap(selected) + 1].is_dir
                   THEN [App EXCEPT !.modal = Some(ModalConfirmDelete(
                                         sidebar_items[unwrap(selected) + 1].path))]
                   ELSE App

(***************************************************************************)
(* SpecSelect: the two selections.  The user walks the sidebar and the     *)
(* history, toggles directories, opens, saves and deletes notes, and       *)
(* refreshes the history, which may come back with any number of commits.  *)
(***************************************************************************)
MaxHistory == 2

ToCommits == modal = None /\ focus # "Commits" /\ HandleKey(Ch("4"), IoAllOk)

WalkCommits ==
    /\ modal = None /\ focus = "Commits"
    /\ \E k \in {Key("Up"), Key("Down"), Key("Home"), Key("End")} : HandleKey(k, IoAllOk)

RefreshCommits ==
    /\ modal = None /\ focus = "Commits"
    /\ \E n \in 0..MaxHistory : HandleKey(Ch("r"), [IoAllOk EXCEPT !.commits = n])

SaveOpened ==
    /\ modal = None /\ is_some(opened_path)
    /\ \E io \in {IoAllOk, BuildFails} : HandleKey(Ctrl("s"), io)

InitSelect == \E n \in 0..MaxHistory : InitWith(Fs0, n)
NextSelect ==
    \/ WalkSidebar \/ BackToSidebar \/ ToCommits \/ WalkCommits \/ RefreshCommits
    \/ AskDelete \/ DecideDelete \/ SaveOpened
SpecSelect == InitSelect /\ [][NextSelect]_vars

\* C31: the sidebar selection is an index of a row when there are rows and
\* absent when there are none; the history selection is an index of a commit
\* when there are commits; Up and Down move each selection by one and stop
\* at the first and the last index, changing nothing else; every rebuild of
\* the sidebar (toggle, save, delete, failed or not) leaves the selection an
\* index of a row of the new sidebar.
C31_SelectionsInRange ==
    /\ SelectionValid(sidebar_items, selected)
    /\ commits > 0 => git_selected \in 0..(commits - 1)
    /\ (run = "running" /\ modal = None) =>
          /\ (focus = "Sidebar" /\ sidebar_items # <<>>) =>
                /\ handle_key(App, Key("Up"), IoAllOk) =
                       [App EXCEPT !.selected =
                           Some(IF selected[1] = 0 THEN 0 ELSE selected[1] - 1)]
                /\ handle_key(App, Key("Down"), IoAllOk) =
                       [App EXCEPT !.selected =
                           Some(IF selected[1] = Len(sidebar_items) - 1
                                THEN selected[1] ELSE selected[1] + 1)]
          /\ (focus = "Commits" /\ commits > 0) =>
                /\ handle_key(App, Key("Up"), IoAllOk) =
                       [App EXCEPT !.git_selected =
                           IF git_selected = 0 THEN 0 ELSE git_selected - 1]
                /\ handle_key(App, Key("Down"), IoAllOk) =
                       [App EXCEPT !.git_selected =
                           IF git_selected = commits - 1
                           THEN git_selected ELSE git_selected + 1]
          /\ \A key \in ExpansionProbeKeys, io \in ProbeOutcomes :
                LET r == handle_key(App, key, io)
                IN SelectionValid(r.sidebar_items, r.selected)

\* the last of two commits is selected, after the last row of the sidebar
\* was deleted and the selection moved up to the row that is now last
C31_Witness ==
    /\ commits = 2 /\ git_selected = 1 /\ focus = "Commits"
    /\ status_message = Some(MsgDeleted) /\ FileB \notin DOMAIN fs.files
    /\ sidebar_items # <<>> /\ selected = Some(Len(sidebar_items) - 1)

(***************************************************************************)
(* Cursor moves in the body, checked in the states of SpecEdit.            *)
(***************************************************************************)
MoveKeys == {Key("Left"), Key("Right"), Key("Up"), Key("Down"), Key("Home"), Key("End")}

\* C32: a cursor move in the body changes neither the lines nor the dirty
\* flag and does not fail.  Left at column 0 goes to the end of the previous
\* line, and nowhere at (0,0); Right at the end of a line goes to column 0
\* of the next line, and nowhere at the end of the last line; Up and Down go
\* to the line above or below with the column clamped to its length, and
\* nowhere on the first or the last line.
C32_MovesOnlyMoveTheCursor ==
    Editing =>
        LET n == Len(lines)
            row == cursor_row + 1
            left == handle_key(App, Key("Left"), IoAllOk)
            right == handle_key(App, Key("Right"), IoAllOk)
            up == handle_key(App, Key("Up"), IoAllOk)
            down == handle_key(App, Key("Down"), IoAllOk)
        IN /\ \A k \in MoveKeys :
                 LET r == handle_key(App, k, IoAllOk)
                 IN /\ r.lines = lines /\ r.dirty = dirty /\ r.run = "running"
                    /\ r.fs = fs /\ r.title = title /\ r.focus = "Content"
                    /\ r.modal = None
           /\ cursor_col = 0 =>
                 IF cursor_row > 0
                 THEN left.cursor_row = cursor_row - 1
                      /\ left.cursor_col = len(lines[row - 1])
                 ELSE left.cursor_row = 0 /\ left.cursor_col = 0
           /\ cursor_col = len(lines[row]) =>
                 IF row < n
                 THEN right.cursor_row = cursor_row + 1 /\ right.cursor_col = 0
                 ELSE right.cursor_row = cursor_row /\ right.cursor_col = cursor_col
           /\ IF cursor_row > 0
              THEN up.cursor_row = cursor_row - 1
                   /\ up.cursor_col = Min(cursor_col, len(lines[row - 1]))
              ELSE up.cursor_row = 0 /\ up.cursor_col = cursor_col
           /\ IF row < n
              THEN down.cursor_row = cursor_row + 1
                   /\ down.cursor_col = Min(cursor_col, len(lines[row + 1]))
              ELSE down.cursor_row = cursor_row /\ down.cursor_col = cursor_col

\* the cursor at the end of the first line of the note x.md, where Left
\* from the second line and Up from its end (column 2, clamped to 1) lead;
\* the note was moved in and not edited
C32_Witness ==
    /\ Editing /\ opened_path = Some(FileX) /\ ~dirty
    /\ lines = << <<"a">>, <<"é">> >> /\ cursor_row = 0 /\ cursor_col = 1

\* the title, the body, their cursors and the dirty flag of r are those of
\* the current state
TextUntouched(r) ==
    /\ r.title = title /\ r.title_cursor = title_cursor
    /\ r.lines = lines /\ r.cursor_row = cursor_row /\ r.cursor_col = cursor_col
    /\ r.dirty = dirty

\* C33: the shortcuts that change the focus (Tab and the digits anywhere, h
\* and l pressed in the sidebar or in the history) change neither the title
\* nor its cursor, neither the body nor its cursor, nor the dirty flag: l
\* is not typed into the surface that gains the focus.
C33_FocusShortcutsTypeNothing ==
    (run = "running" /\ modal = None) =>
        /\ \A k \in {Key("Tab"), Ch("1"), Ch("2"), Ch("3"), Ch("4")} :
              TextUntouched(handle_key(App, k, IoAllOk))
        /\ focus \in {"Sidebar", "Commits"} =>
              \A k \in {Ch("h"), Ch("l")} : TextUntouched(handle_key(App, k, IoAllOk))

\* r is the current state with the character c typed into the body at the
\* cursor
Typed(r, c) ==
    /\ r.run = "running" /\ r.focus = "Content" /\ r.modal = None
    /\ r.lines = [lines EXCEPT ![cursor_row + 1] = String_insert(@, cursor_col, c)]
    /\ r.cursor_row = cursor_row /\ r.cursor_col = cursor_col + 1
    /\ r.dirty

\* letters and digits, the keys with a function outside the body among them
TypedChars == {"a", "x", "q", "n", "h", "l", "1", "2", "3", "4"}

\* C34: with no dialog open and the focus on the body, every unmodified
\* letter or digit key is inserted at the cursor (the cursor advances by
\* one, dirty is set), the focus stays on the body and the application
\* keeps running: none of them quits, opens a dialog or moves the focus.
C34_BodyTakesEveryCharacter ==
    (Editing /\ is_char_boundary(lines[cursor_row + 1], cursor_col)) =>
        \A c \in TypedChars : Typed(handle_key(App, Ch(c), IoAllOk), c)

\* C35: the pending target directory of a new note is set only while the
\* current note is a new note that has no file yet: opening an existing
\* note clears it, so a save of the opened note does not write into the
\* directory chosen for the abandoned new note.
C35_PendingDirOnlyForNewNote ==
    /\ is_some(new_note_dir) => opened_path = None
    /\ (run = "running" /\ NoteSelected) =>
          LET r == handle_key(App, Key("Enter"), IoAllOk)
          IN /\ r.new_note_dir = None
             /\ is_some(new_note_dir) =>
                    parent(save_target(r)) # Some(unwrap(new_note_dir))

\* the note of the state a is the selected row of its sidebar
SavedNoteSelected(a) ==
    /\ a.run = "running" /\ is_some(a.opened_path) /\ is_some(a.selected)
    /\ unwrap(a.selected) < Len(a.sidebar_items)
    /\ a.sidebar_items[unwrap(a.selected) + 1].path = unwrap(a.opened_path)
    /\ unwrap(a.opened_path) \in DOMAIN a.fs.files

\* C36: for every body buffer, converting the lines to text and back gives
\* the same lines, and saving the note under its own path and opening it
\* again from the sidebar loads the same lines, buffers of several lines
\* whose last line is empty included.
C36_SaveThenReopen ==
    (run = "running" /\ modal = None) =>
        /\ split_lines_preserve(join_lines(lines)) = lines
        /\ LET w == handle_key(App, Ctrl("s"), IoAllOk)
               o == handle_key(handle_key(w, Ch("1"), IoAllOk), Key("Enter"), IoAllOk)
           IN (/\ trim(title) # <<>> /\ SavedNoteSelected(w)
               /\ opened_path \in {None, Some(save_target(App))}) =>
                  /\ w.fs.files[unwrap(w.opened_path)] = join_lines(lines)
                  /\ o.opened_path = w.opened_path
                  /\ o.lines = lines
====
